---- MODULE Spec2Model ----
(***************************************************************************)
(* Model of the cheatcode tracer of crates/era-cheatcodes                  *)
(* (cheatcodes-debug.rs).  The tracer is driven by the host VM through     *)
(* three hooks per instruction: before_execution, after_execution and      *)
(* finish_cycle.  The tracer's fields keep their source names and live in  *)
(* the record `tracer`; the part of the host the hooks read and write      *)
(* (call stack, return-data register, storage view, fork backend) lives in *)
(* `vm`, `storage` and `db`.                                               *)
(***************************************************************************)
EXTENDS Integers, Sequences, FiniteSets, TLC

VARIABLES
    tracer,     \* CheatcodeTracer
    vm,         \* host VM local state: callstack, return-data register
    storage,    \* StorageView: modified_storage_keys over the backing store
    db,         \* fork/snapshot backend behind the storage handle
    phase,      \* which hook the host calls next
    op,         \* the instruction of the current cycle
    panicked,   \* Some(message) once a panic!/assert!/unwrap has aborted the tracer
    ncalls,     \* far calls the host has executed so far
    history     \* per snapshot id, the pending delta it was taken from (not program state)

vars == <<tracer, vm, storage, db, phase, op, panicked, ncalls, history>>

---------------------------------------------------------------------------
(* Option<T>: None is the empty sequence, Some(v) the one-element one.     *)
None == <<>>
Some(v) == <<v>>
IsSome(o) == o /= None
IsNone(o) == o = None
Unwrap(o) == o[1]

EmptyMap == [k \in {} |-> TRUE]
ContainsKey(m, k) == k \in DOMAIN m
Insert(m, k, v) == (k :> v) @@ m
Remove(m, k) == [j \in (DOMAIN m) \ {k} |-> m[j]]

IsPrefix(p, s) == Len(p) <= Len(s) /\ SubSeq(s, 1, Len(p)) = p

---------------------------------------------------------------------------
(* Bounds of the model.                                                    *)
MaxDepth == 3          \* deepest call stack the host builds
MaxCount == 2          \* largest count argument of expectCall
MaxCalls == 4          \* far calls the host executes in one run
MaxEvents == 3         \* events the host writes to the event sink in one run

---------------------------------------------------------------------------
(* Addresses.                                                              *)
CHEATCODE_ADDRESS == "cheatcode"
TEST_ADDRESS == "test"
BOOTLOADER_ADDRESS == "bootloader"
ACCOUNT_CODE_STORAGE_ADDRESS == "account_code_storage"
MSG_VALUE_SIMULATOR_ADDRESS == "msg_value_simulator"
SYSTEM_CONTEXT_ADDRESS == "system_context"
NONCE_HOLDER_ADDRESS == "nonce_holder"

INTERNAL_CONTRACT_ADDRESSES ==
    { BOOTLOADER_ADDRESS, ACCOUNT_CODE_STORAGE_ADDRESS, NONCE_HOLDER_ADDRESS,
      MSG_VALUE_SIMULATOR_ADDRESS, SYSTEM_CONTEXT_ADDRESS, "zero" }

UserAddresses == {"AA", "BB"}
Origins == {"origin0", "origin1", "origin2"}

(* Storage keys are <<account, slot>>. *)
TxOriginKey == <<SYSTEM_CONTEXT_ADDRESS, "tx_origin">>
BlockInfoKey == <<SYSTEM_CONTEXT_ADDRESS, "block_info">>
UserKey == <<"AA", "slot0">>
OtherKey == <<"BB", "slot0">>
get_nonce_key(account) == <<NONCE_HOLDER_ADDRESS, account>>

KeyAddress(key) == key[1]

---------------------------------------------------------------------------
(* Host VM: call stack.  vm.callstack holds the frames bottom-up; the last *)
(* one is callstack.current, the ones before it callstack.inner.           *)
Frame(this_address, msg_sender, code_address, pc, handler, local, value) ==
    [ this_address |-> this_address,
      msg_sender |-> msg_sender,
      code_address |-> code_address,
      pc |-> pc,
      exception_handler_location |-> handler,
      is_local_frame |-> local,
      context_u128_value |-> value,
      code_page |-> code_address,       \* the page holding code_address's code
      base_memory_page |-> 0,           \* set by the host for each far call
      ergs_remaining |-> 1 ]            \* the gas the frame was given

Current(v) == v.callstack[Len(v.callstack)]
Inner(v) == SubSeq(v.callstack, 1, Len(v.callstack) - 1)
Depth(v) == Len(v.callstack) - 1
SetCurrent(v, frame) == [v EXCEPT !.callstack[Len(v.callstack)] = frame]

(* StorageView: reads go to modified_storage_keys first, then to the store *)
(* behind it.                                                              *)
BaseValue(key) ==
    IF key = TxOriginKey THEN "origin0"
    ELSE IF key = <<NONCE_HOLDER_ADDRESS, "deployer">> THEN <<0, 1>>
    ELSE IF KeyAddress(key) = NONCE_HOLDER_ADDRESS THEN <<0, 0>>
    ELSE IF key = BlockInfoKey THEN <<0, 0>>
    ELSE 0

read_value(st, key) ==
    IF ContainsKey(st.modified_storage_keys, key)
    THEN st.modified_storage_keys[key]
    ELSE BaseValue(key)

set_value(st, key, value) ==
    [st EXCEPT !.modified_storage_keys = Insert(@, key, value)]

---------------------------------------------------------------------------
(* The state after CheatcodeTracer::new and before the first instruction.  *)
ExpectedEmitStates ==
    {"NotStarted", "ExpectedEmitTriggered", "CallTriggered", "Assert", "Finished"}

EmitChecks(address, topics, data) ==
    [address |-> address, topics |-> topics, data |-> data]

NotStarted == [state |-> "NotStarted", call_depth |-> 0]
Running(d) == [state |-> "Running", call_depth |-> d]
Finished == [state |-> "Finished", call_depth |-> 0]

new(storage_modifications) ==
    [ storage_modifications |-> storage_modifications,
      one_time_actions |-> <<>>,
      next_return_action |-> None,
      permanent_actions |->
          [start_prank |-> None, broadcast |-> None, immediate_return |-> None],
      return_data |-> None,
      return_ptr |-> None,
      near_calls |-> 0,
      expected_calls |-> EmptyMap,
      test_status |-> NotStarted,
      emit_config |->
          [ expected_emit_state |-> "NotStarted",
            expect_emits_since |-> 0, expect_emits_until |-> 0,
            call_emits_since |-> 0, call_emits_until |-> 0,
            call_depth |-> 0,
            checks |-> EmitChecks(None, <<FALSE, FALSE, FALSE>>, FALSE) ],
      saved_snapshots |-> EmptyMap,
      broadcastable_transactions |-> <<>>,
      mock_calls |-> <<>>,
      active_farcall_stack |-> None,
      current_opcode |-> [opcode |-> None, pc |-> 0],
      current_opcode_track |-> FALSE ]

(* Cumulative storage modifications of the earlier transactions of the     *)
(* test, handed to the constructor.                                        *)
StorageModifications ==
    { [keys |-> EmptyMap],
      [keys |-> (OtherKey :> 1)],
      [keys |-> (UserKey :> 1) @@ (BlockInfoKey :> <<1, 1>>)] }

BootFrame == Frame(BOOTLOADER_ADDRESS, "zero", BOOTLOADER_ADDRESS, 0, 0, FALSE, 0)

NoOp == [opcode |-> "Nop"]

InitWith(storage_modifications) ==
    /\ tracer = new(storage_modifications)
    /\ vm = [callstack |-> <<BootFrame>>, returndata |-> <<>>, timestamp |-> 0,
             events |-> <<>>, overflow_checks |-> TRUE,
             decommittment_processor |-> EmptyMap]
    /\ storage = [modified_storage_keys |-> EmptyMap]
    /\ db = [next_snapshot_id |-> 0, snapshots |-> {},
             next_fork_id |-> 0, forks |-> EmptyMap, active_fork |-> None]
    /\ phase = "before"
    /\ op = NoOp
    /\ panicked = None
    /\ ncalls = 0
    /\ history = [taken_from |-> EmptyMap, captured |-> EmptyMap, unwritten |-> {},
                  activation_depth |-> None, applied |-> <<>>, calls |-> <<>>]

Init == InitWith([keys |-> EmptyMap])

---------------------------------------------------------------------------
(* Instructions.  Every instruction carries the operands the hooks read:   *)
(*   pc       the executing frame's pc once the instruction is fetched     *)
(*   imm_0    the label of a ret.to_label / the exception handler of a call *)
(*   callee, calldata, value, call   of a far call (call: the decoded       *)
(*            Vm::VmCalls when the callee is the cheatcode address)         *)
(*   ret, to_label, retdata          of a ret                               *)
FarCallOp(callee, calldata, value, call, pc, handler) ==
    [ opcode |-> "FarCall", callee |-> callee, calldata |-> calldata,
      value |-> value, call |-> call, pc |-> pc, imm_0 |-> handler,
      ergs |-> 1, code_page |-> callee, is_pointer |-> TRUE ]
NearCallOp(pc, handler) ==
    [ opcode |-> "NearCall", pc |-> pc, imm_0 |-> handler ]
RetOp(ret, to_label, label, retdata) ==
    [ opcode |-> "Ret", ret |-> ret, to_label |-> to_label, imm_0 |-> label,
      retdata |-> retdata ]
NopOp(pc) == [ opcode |-> "Nop", pc |-> pc ]
EventOp(topics, data, pc) ==
    [ opcode |-> "Event", topics |-> topics, data |-> data, pc |-> pc ]

(* The tracer and the host state a hook works on, threaded through the     *)
(* statements of the hook in source order.  A panic stops the hook.        *)
(* applied lists the deferred actions in the order the hook applied them   *)
(* and calls the calls a fork action made on the storage view and on the   *)
(* fork backend, in the order of its statements (neither is program state). *)
World ==
    [t |-> tracer, vm |-> vm, st |-> storage, db |-> db, panic |-> panicked,
     applied |-> <<>>, calls |-> <<>>]
Called(w, names) == [w EXCEPT !.calls = @ \o names]
Panic(w, msg) == [w EXCEPT !.panic = Some([msg |-> msg])]
PanicWith(w, report) == [w EXCEPT !.panic = Some(report)]
Then(w, F(_)) == IF IsSome(w.panic) THEN w ELSE F(w)

push(w, action) == [w EXCEPT !.t.one_time_actions = Append(@, action)]

---------------------------------------------------------------------------
(* before_execution                                                        *)
current_expect_revert(t) ==
    IF IsSome(t.next_return_action)
    THEN Some(Unwrap(t.next_return_action).action)
    ELSE None

(* Continuations that are stored by the first return seen and kept.       *)
store_continuations_Once(w, o) ==
    LET expect == Unwrap(w.t.next_return_action).action
    IN  IF expect.prev_continue_pc /= <<>>
        THEN w
        ELSE [w EXCEPT
                !.t.next_return_action[1].action.prev_continue_pc =
                    <<Inner(w.vm)[Len(Inner(w.vm))].pc>>,
                !.t.next_return_action[1].action.prev_exception_handler_pc =
                    <<Current(w.vm).exception_handler_location>>]

store_continuations(w, o) ==
    LET last == Inner(w.vm)[Len(Inner(w.vm))]
        current == Current(w.vm)
        is_to_label == o.to_label /\ current.is_local_frame
        continue_pc == IF is_to_label THEN o.imm_0 ELSE last.pc
    IN  [w EXCEPT
            !.t.next_return_action[1].action.prev_continue_pc = Some(continue_pc),
            !.t.next_return_action[1].action.prev_exception_handler_pc =
                Some(current.exception_handler_location)]

before_execution(w, o) ==
    LET w1 == [w EXCEPT !.t.current_opcode =
                   [opcode |-> Some(o.opcode), pc |-> Current(w.vm).pc]]
        w2 == IF o.opcode = "FarCall"
              THEN [w1 EXCEPT !.t.active_farcall_stack = Some(Current(w.vm))]
              ELSE w1
    IN  IF IsSome(current_expect_revert(w2.t)) /\ o.opcode = "Ret"
        THEN IF Depth(w2.vm) = 0
             THEN Panic(w2, "unwrap on None: callstack.inner.last()")
             ELSE store_continuations(w2, o)
        ELSE w2

---------------------------------------------------------------------------
(* The host executes the instruction between before_execution and          *)
(* after_execution.  A far call pushes the callee's frame, a near call a    *)
(* local frame, a ret pops the current frame and leaves the return data    *)
(* behind the return-data register.                                        *)
ExecuteFarCall(v, o) ==
    LET caller == [Current(v) EXCEPT !.pc = o.pc]
        callee == [Frame(o.callee, caller.this_address, o.callee, 0, o.imm_0,
                         FALSE, o.value)
                      EXCEPT !.base_memory_page = Depth(v) + 1,
                             !.code_page = o.code_page,
                             !.ergs_remaining = o.ergs]
    IN  [v EXCEPT !.callstack = Append(SetCurrent(v, caller).callstack, callee)]

ExecuteNearCall(v, o) ==
    LET caller == [Current(v) EXCEPT !.pc = o.pc]
        local == [caller EXCEPT !.is_local_frame = TRUE,
                                !.exception_handler_location = o.imm_0]
    IN  [v EXCEPT !.callstack = Append(SetCurrent(v, caller).callstack, local)]

ExecuteRet(v, o) ==
    LET popped == Current(v)
        inner == Inner(v)
        last == inner[Len(inner)]
        pc == IF o.ret = "Ok"
              THEN IF o.to_label /\ popped.is_local_frame THEN o.imm_0 ELSE last.pc
              ELSE popped.exception_handler_location
    IN  [v EXCEPT !.callstack = [inner EXCEPT ![Len(inner)].pc = pc],
                  !.returndata = IF popped.is_local_frame THEN @ ELSE o.retdata]

(* The event sink stamps every event with the host's clock.  The hooks     *)
(* only ever compare the clock with the stamps of events, so the model's   *)
(* clock ticks when an event is written and at no other time.              *)
ExecuteEvent(v, o) ==
    LET event == [ timestamp |-> v.timestamp,
                   address |-> Current(v).this_address,
                   topics |-> o.topics,
                   data |-> o.data ]
    IN  [SetCurrent(v, [Current(v) EXCEPT !.pc = o.pc])
            EXCEPT !.events = Append(@, event), !.timestamp = @ + 1]

ExecuteOp(v, o) ==
    CASE o.opcode = "FarCall" -> ExecuteFarCall(v, o)
      [] o.opcode = "NearCall" -> ExecuteNearCall(v, o)
      [] o.opcode = "Ret" -> ExecuteRet(v, o)
      [] o.opcode = "Event" -> ExecuteEvent(v, o)
      [] OTHER -> SetCurrent(v, [Current(v) EXCEPT !.pc = o.pc])

(* What the host can execute in the state v: the call stack has a frame to *)
(* return from, stays within MaxDepth, and the cheatcode address, which    *)
(* holds no code, returns at once.                                         *)
Executable(v, o) ==
    /\ o.opcode \in {"FarCall", "NearCall"} => Depth(v) < MaxDepth
    /\ o.opcode = "Ret" => Depth(v) > 0
    /\ Current(v).code_address = CHEATCODE_ADDRESS =>
           o.opcode = "Ret" /\ o.ret = "Ok" /\ ~o.to_label
    /\ o.opcode = "FarCall" => ncalls < MaxCalls
    /\ o.opcode = "Event" => Len(v.events) < MaxEvents

---------------------------------------------------------------------------
(* after_execution, lines 463-491: test lifecycle and the expected-call    *)
(* assertion at test finish.                                               *)
reset_test_status(w) == [w EXCEPT !.t.test_status = NotStarted]

(* update_test_status without the depth test of line 1414.                 *)
update_test_status_AnyRet(w, o) ==
    CASE o.opcode = "FarCall" ->
            IF /\ w.t.test_status = NotStarted
               /\ Current(w.vm).code_address = TEST_ADDRESS
            THEN [w EXCEPT !.t.test_status = Running(Depth(w.vm)),
                           !.t.current_opcode_track = TRUE]
            ELSE w
      [] o.opcode = "Ret" ->
            IF w.t.test_status.state = "Running"
            THEN [w EXCEPT !.t.test_status = Finished,
                           !.t.current_opcode_track = FALSE]
            ELSE w
      [] OTHER -> w

update_test_status(w, o) ==
    CASE o.opcode = "FarCall" ->
            IF /\ w.t.test_status = NotStarted
               /\ Current(w.vm).code_address = TEST_ADDRESS
            THEN [w EXCEPT !.t.test_status = Running(Depth(w.vm)),
                           !.t.current_opcode_track = TRUE]
            ELSE w
      [] o.opcode = "Ret" ->
            IF /\ w.t.test_status.state = "Running"
               /\ w.t.test_status.call_depth = Depth(w.vm) + 1
            THEN [w EXCEPT !.t.test_status = Finished,
                           !.t.current_opcode_track = FALSE]
            ELSE w
      [] OTHER -> w

(* The (address, calldata) pairs registered in the tracker. *)
ExpectedKeys(expected_calls) ==
    UNION { { <<a, c>> : c \in DOMAIN expected_calls[a] } : a \in DOMAIN expected_calls }

EntryFailed_Swapped(entry) ==
    CASE entry.expected.call_type = "Count" ->
            entry.expected.count > entry.actual_count
      [] entry.expected.call_type = "NonCount" ->
            entry.expected.count /= entry.actual_count

EntryFailed(entry) ==
    CASE entry.expected.call_type = "Count" ->
            entry.expected.count /= entry.actual_count
      [] entry.expected.call_type = "NonCount" ->
            entry.expected.count > entry.actual_count

FailedExpectedCalls(expected_calls) ==
    { k \in ExpectedKeys(expected_calls) : EntryFailed(expected_calls[k[1]][k[2]]) }

assert_expected_calls(w) ==
    LET failed == FailedExpectedCalls(w.t.expected_calls)
    IN  IF failed /= {}
        THEN PanicWith(w,
                 [ msg |-> "Expected call was found a different number of times",
                   any_of |->
                       { [ address |-> k[1], calldata |-> k[2],
                           actual |-> w.t.expected_calls[k[1]][k[2]].actual_count,
                           expected |-> w.t.expected_calls[k[1]][k[2]].expected.count ]
                         : k \in failed } ])
        ELSE w

(* after_execution, lines 436-461: the expected-emit window.  An address   *)
(* is reserved when its upper 18 bytes are zero, that is below 0x10000:    *)
(* the internal contracts of the model, and LOW_ADDRESS, which is none of  *)
(* them.                                                                   *)
LOW_ADDRESS == "0xffff"
is_reserved_addr(address) == address \in INTERNAL_CONTRACT_ADDRESSES \cup {LOW_ADDRESS}

(* track_emits without the address guard of lines 442-444.                 *)
track_emits_AnyAddress(w, o) ==
    IF /\ w.t.emit_config.expected_emit_state = "ExpectedEmitTriggered"
       /\ o.opcode = "FarCall"
    THEN [w EXCEPT !.t.emit_config.call_emits_since = w.vm.timestamp,
                   !.t.emit_config.expect_emits_until = w.vm.timestamp,
                   !.t.emit_config.expected_emit_state = "CallTriggered",
                   !.t.emit_config.call_depth = Depth(w.vm)]
    ELSE w

(* track_emits without the ExpectedEmitTriggered guard of line 446.         *)
track_emits_AnyState(w, o) ==
    IF /\ o.opcode = "FarCall"
       /\ Current(w.vm).code_address /= CHEATCODE_ADDRESS
       /\ ~is_reserved_addr(Current(w.vm).code_address)
    THEN [w EXCEPT !.t.emit_config.call_emits_since = w.vm.timestamp,
                   !.t.emit_config.expect_emits_until = w.vm.timestamp,
                   !.t.emit_config.expected_emit_state = "CallTriggered",
                   !.t.emit_config.call_depth = Depth(w.vm)]
    ELSE w

track_emits(w, o) ==
    LET current == Current(w.vm)
        tracked == /\ current.code_address /= CHEATCODE_ADDRESS
                   /\ current.code_address \notin INTERNAL_CONTRACT_ADDRESSES
                   /\ ~is_reserved_addr(current.code_address)
        w1 == IF /\ w.t.emit_config.expected_emit_state = "ExpectedEmitTriggered"
                 /\ o.opcode = "FarCall"
              THEN [w EXCEPT !.t.emit_config.call_emits_since = w.vm.timestamp,
                             !.t.emit_config.expect_emits_until = w.vm.timestamp,
                             !.t.emit_config.expected_emit_state = "CallTriggered",
                             !.t.emit_config.call_depth = Depth(w.vm)]
              ELSE w
        w2 == IF /\ w1.t.emit_config.expected_emit_state = "CallTriggered"
                 /\ Depth(w1.vm) < w1.t.emit_config.call_depth
              THEN [w1 EXCEPT !.t.emit_config.call_emits_until = w.vm.timestamp]
              ELSE w1
    IN  IF tracked THEN w2 ELSE w

test_finish(w, o) ==
    LET w1 == update_test_status(w, o)
    IN  IF w1.t.test_status = Finished
        THEN LET w2 == [w1 EXCEPT !.t.emit_config.expected_emit_state = "Assert"]
             IN  Then(assert_expected_calls(w2), reset_test_status)
        ELSE w1

---------------------------------------------------------------------------
(* handle_except_revert / handle_return: the expectRevert state machine.   *)
(* Byte strings are sequences over Bytes; INVALID_BYTE is a byte that is   *)
(* not valid UTF-8.  Strings are sequences over Chars.                     *)
INVALID_BYTE == "xFF"
REPLACEMENT_CHARACTER == "U+FFFD"
Bytes == {"a", "b", INVALID_BYTE}
Chars == {"a", "b", REPLACEMENT_CHARACTER}

from_utf8_lossy(bytes) ==
    [i \in 1..Len(bytes) |->
        IF bytes[i] = INVALID_BYTE THEN REPLACEMENT_CHARACTER ELSE bytes[i]]

(* Return data of a ret, with the VmRevertReason it decodes to:            *)
(* General{msg} for an Error(string) payload, Unknown{data} otherwise.     *)
General(msg) == [is_empty |-> FALSE, reason |-> [kind |-> "General", msg |-> msg]]
Unknown(data) ==
    [is_empty |-> data = <<>>, reason |-> [kind |-> "Unknown", data |-> data]]

Ok == [ok |-> TRUE]
Err(error) == [ok |-> FALSE, error |-> error]

ReasonMatches_Always(reason, expected_reason) == TRUE

ReasonMatches(reason, expected_reason) ==
    CASE reason.kind = "General" -> reason.msg = from_utf8_lossy(expected_reason)
      [] reason.kind = "Unknown" -> reason.data = expected_reason

handle_except_revert(reason, ret, retdata) ==
    CASE ret = "Revert" /\ IsSome(reason) ->
            LET expected_reason == Unwrap(reason)
            IN  IF expected_reason /= <<>> /\ retdata.is_empty
                THEN Err("call reverted as expected, but without data")
                ELSE IF retdata.reason.kind \in {"General", "Unknown"}
                     THEN IF ReasonMatches(retdata.reason, expected_reason)
                          THEN Ok
                          ELSE Err("Error != expected error")
                     ELSE Err("unexpected revert reason")
      [] ret = "Revert" /\ IsNone(reason) -> Ok
      [] ret = "Ok" -> Err("expected revert but call succeeded")
      [] ret = "Panic" -> Err("expected revert but call Panicked")

ForceReturn(data, continue_pc) ==
    [kind |-> "ForceReturn", data |-> data, continue_pc |-> continue_pc]
ForceRevert(error, exception_handler) ==
    [kind |-> "ForceRevert", error |-> error, exception_handler |-> exception_handler]

DEADBEEF == <<"de", "ad", "be", "ef">>

(* A resolution that clears the expectation and enqueues nothing when the  *)
(* watched return is a success.                                            *)
resolve_expect_revert_SilentOk(w, o, action) ==
    LET expect == action.action
        result == handle_except_revert(expect.reason, o.ret, o.retdata)
    IN  CASE o.ret = "Revert" ->
                [push(w, IF result.ok
                         THEN ForceReturn(DEADBEEF, Unwrap(expect.prev_continue_pc))
                         ELSE ForceRevert(result.error,
                                          Unwrap(expect.prev_exception_handler_pc)))
                    EXCEPT !.t.next_return_action = <<>>]
          [] o.ret = "Ok" -> [w EXCEPT !.t.next_return_action = <<>>]
          [] o.ret = "Panic" -> w

resolve_expect_revert(w, o, action) ==
    LET expect == action.action
        exception_handler == expect.prev_exception_handler_pc
        continue_pc == expect.prev_continue_pc
        result == handle_except_revert(expect.reason, o.ret, o.retdata)
    IN  CASE o.ret = "Revert" ->
                IF IsNone(exception_handler) \/ IsNone(continue_pc)
                THEN w
                ELSE [push(w, IF result.ok
                                THEN ForceReturn(DEADBEEF, Unwrap(continue_pc))
                                ELSE ForceRevert(result.error, Unwrap(exception_handler)))
                        EXCEPT !.t.next_return_action = None]
          [] o.ret = "Ok" ->
                IF IsNone(exception_handler)
                THEN w
                ELSE [(IF ~result.ok
                       THEN push(w, ForceRevert(result.error, Unwrap(exception_handler)))
                       ELSE w)
                        EXCEPT !.t.next_return_action = None]
          [] o.ret = "Panic" -> w

(* handle_return without the returns_to_skip test of lines 2382-2385.      *)
handle_return_NoSkip(w, o) ==
    IF IsNone(w.t.next_return_action)
    THEN w
    ELSE LET action == Unwrap(w.t.next_return_action)
         IN  IF Depth(w.vm) /= action.target_depth \/ o.opcode /= "Ret"
             THEN w
             ELSE resolve_expect_revert(w, o, action)

handle_return(w, o) ==
    IF IsNone(w.t.next_return_action)
    THEN w
    ELSE LET action == Unwrap(w.t.next_return_action)
         IN  IF Depth(w.vm) /= action.target_depth
             THEN w
             ELSE IF o.opcode /= "Ret"
             THEN w
             ELSE IF action.returns_to_skip /= 0
             THEN [w EXCEPT !.t.next_return_action[1].returns_to_skip = @ - 1]
             ELSE resolve_expect_revert(w, o, action)

---------------------------------------------------------------------------
(* after_execution, lines 511-535: expected-call counting.                 *)
CallMatches_Exact(expected_calldata, expected, calldata, value) ==
    /\ expected_calldata = calldata
    /\ (IsSome(expected.value) => Unwrap(expected.value) = value)

CallMatches(expected_calldata, expected, calldata, value) ==
    /\ Len(expected_calldata) <= Len(calldata)
    /\ expected_calldata = SubSeq(calldata, 1, Len(expected_calldata))
    /\ (IsSome(expected.value) => Unwrap(expected.value) = value)

(* get_calldata, lines 2642-2651: the calldata register must be tagged as  *)
(* a pointer.  The bytes it points at are the far call's calldata operand. *)
calldata_ptr_is_pointer(o) == o.is_pointer

count_expected_calls(w, o) ==
    LET current == Current(w.vm)
    IN  IF o.opcode = "FarCall" /\ ContainsKey(w.t.expected_calls, current.code_address)
        THEN IF ~calldata_ptr_is_pointer(o)
             THEN Panic(w, "assertion failed: ptr.is_pointer")
             ELSE
             [w EXCEPT !.t.expected_calls[current.code_address] =
                 [c \in DOMAIN @ |->
                     IF CallMatches(c, @[c].expected, o.calldata,
                                    current.context_u128_value)
                     THEN [@[c] EXCEPT !.actual_count = @ + 1]
                     ELSE @[c]]]
        ELSE w

(* after_execution, lines 537-559: a far call that matches a mock arms the *)
(* immediate return; the last matching mock wins.                          *)
MockMatches(mock_call, current, calldata) ==
    /\ mock_call.filter.address = current.code_address
    /\ mock_call.filter.calldata = calldata

(* A matching in which the first registered matching mock wins.           *)
match_mock_calls_FirstWins(w, o) ==
    IF o.opcode /= "FarCall"
    THEN w
    ELSE IF ~calldata_ptr_is_pointer(o)
    THEN Panic(w, "assertion failed: ptr.is_pointer")
    ELSE LET matching == { i \in 1..Len(w.t.mock_calls) :
                             MockMatches(w.t.mock_calls[i], Current(w.vm), o.calldata) }
         IN  IF matching = {}
             THEN w
             ELSE IF IsNone(w.t.active_farcall_stack)
             THEN Panic(w, "unwrap on None: active_farcall_stack")
             ELSE LET i == CHOOSE j \in matching : \A k \in matching : j <= k
                      caller == Unwrap(w.t.active_farcall_stack)
                  IN  [w EXCEPT !.t.permanent_actions.immediate_return =
                          Some([ trigger_pc |-> 0,
                                 return_data |-> w.t.mock_calls[i].filter.return_data,
                                 continue_pc |-> caller.pc + 1,
                                 base_memory_page |-> caller.base_memory_page,
                                 code_page |-> caller.code_page ])]

match_mock_calls(w, o) ==
    IF o.opcode /= "FarCall"
    THEN w
    ELSE IF ~calldata_ptr_is_pointer(o)
    THEN Panic(w, "assertion failed: ptr.is_pointer")
    ELSE LET matching == { i \in 1..Len(w.t.mock_calls) :
                             MockMatches(w.t.mock_calls[i], Current(w.vm), o.calldata) }
         IN  IF matching = {}
             THEN w
             ELSE IF IsNone(w.t.active_farcall_stack)
             THEN Panic(w, "unwrap on None: active_farcall_stack")
             ELSE LET i == CHOOSE j \in matching : \A k \in matching : k <= j
                      caller == Unwrap(w.t.active_farcall_stack)
                  IN  [w EXCEPT !.t.permanent_actions.immediate_return =
                          Some([ trigger_pc |-> 0,
                                 return_data |-> w.t.mock_calls[i].filter.return_data,
                                 continue_pc |-> caller.pc + 1,
                                 base_memory_page |-> caller.base_memory_page,
                                 code_page |-> caller.code_page ])]

(* after_execution, lines 561-572 and 590-594: where pending return data   *)
(* is to be written.                                                       *)
RETURNDATA_REGISTER == [memory_page |-> "returndata"]

save_return_ptr(w, o) ==
    IF IsSome(w.t.return_data) /\ o.opcode = "Ret"
    THEN IF w.t.near_calls = 0
         THEN [w EXCEPT !.t.return_ptr = Some(RETURNDATA_REGISTER)]
         ELSE [w EXCEPT !.t.near_calls = @ - 1]
    ELSE w

count_near_calls(w, o) ==
    IF o.opcode = "NearCall" /\ IsSome(w.t.return_data)
    THEN [w EXCEPT !.t.near_calls = @ + 1]
    ELSE w

(* after_execution, lines 574-588: a ret back to the broadcast's depth.    *)
SetOrigin(origin) == [kind |-> "SetOrigin", origin |-> origin]

broadcast_on_ret_Clearing(w, o) ==
    IF /\ o.opcode = "Ret"
       /\ Current(w.vm).code_address /= CHEATCODE_ADDRESS
       /\ IsSome(w.t.permanent_actions.broadcast)
       /\ Depth(w.vm) = Unwrap(w.t.permanent_actions.broadcast).depth
    THEN push([w EXCEPT !.t.permanent_actions.broadcast = None],
              SetOrigin(Unwrap(w.t.permanent_actions.broadcast).original_origin))
    ELSE w

broadcast_on_ret(w, o) ==
    IF /\ o.opcode = "Ret"
       /\ Current(w.vm).code_address /= CHEATCODE_ADDRESS
       /\ IsSome(w.t.permanent_actions.broadcast)
       /\ Depth(w.vm) = Unwrap(w.t.permanent_actions.broadcast).depth
    THEN push(w, SetOrigin(Unwrap(w.t.permanent_actions.broadcast).original_origin))
    ELSE w

---------------------------------------------------------------------------
(* Handlers of the cheatcodes.                                             *)
StorageWrite(key, read, write) ==
    [kind |-> "StorageWrite", key |-> key, read_value |-> read, write_value |-> write]

write_storage(w, key, write_value) ==
    push(w, StorageWrite(key, read_value(w.st, key), write_value))

(* A full nonce is the pair <<transaction nonce, deployment nonce>>. *)
get_nonce(w, account) == read_value(w.st, get_nonce_key(account))

(* A set_nonce that enqueues no write.                                     *)
set_nonce_Never(w, account, tx_nonce, deploy_nonce) == w

(* A set_nonce that lets a request equal to the current value through.    *)
set_nonce_AllowEqual(w, account, tx_nonce, deploy_nonce) ==
    LET nonce == get_nonce(w, account)
    IN  IF IsSome(tx_nonce) /\ nonce[1] > Unwrap(tx_nonce)
        THEN w
        ELSE IF IsSome(deploy_nonce) /\ nonce[2] > Unwrap(deploy_nonce)
        THEN w
        ELSE write_storage(w, get_nonce_key(account),
                 << IF IsSome(tx_nonce) THEN Unwrap(tx_nonce) ELSE nonce[1],
                    IF IsSome(deploy_nonce) THEN Unwrap(deploy_nonce) ELSE nonce[2] >>)

(* What set_nonce returns: the new pair of nonces, or None when a request  *)
(* is not above the current value.                                         *)
set_nonce_returns(w, account, tx_nonce, deploy_nonce) ==
    LET nonce == get_nonce(w, account)
    IN  IF IsSome(tx_nonce) /\ nonce[1] >= Unwrap(tx_nonce)
        THEN None
        ELSE IF IsSome(deploy_nonce) /\ nonce[2] >= Unwrap(deploy_nonce)
        THEN None
        ELSE Some(<< IF IsSome(tx_nonce) THEN Unwrap(tx_nonce) ELSE nonce[1],
                     IF IsSome(deploy_nonce) THEN Unwrap(deploy_nonce) ELSE nonce[2] >>)

set_nonce(w, account, tx_nonce, deploy_nonce) ==
    LET nonce == get_nonce(w, account)
    IN  IF IsSome(tx_nonce) /\ nonce[1] >= Unwrap(tx_nonce)
        THEN w
        ELSE IF IsSome(deploy_nonce) /\ nonce[2] >= Unwrap(deploy_nonce)
        THEN w
        ELSE write_storage(w, get_nonce_key(account),
                 << IF IsSome(tx_nonce) THEN Unwrap(tx_nonce) ELSE nonce[1],
                    IF IsSome(deploy_nonce) THEN Unwrap(deploy_nonce) ELSE nonce[2] >>)

add_expect_revert_Overwrite(w, reason, depth) ==
    [w EXCEPT !.t.next_return_action =
        Some([ target_depth |-> depth - 1,
               action |-> [ reason |-> reason,
                            depth |-> depth - 1,
                            prev_exception_handler_pc |-> None,
                            prev_continue_pc |-> None ],
               returns_to_skip |-> 1 ])]

add_expect_revert(w, reason, depth) ==
    IF IsSome(current_expect_revert(w.t))
    THEN Panic(w, "expectRevert already set")
    ELSE [w EXCEPT !.t.next_return_action =
             Some([ target_depth |-> depth - 1,
                    action |-> [ reason |-> reason,
                                 depth |-> depth - 1,
                                 prev_exception_handler_pc |-> None,
                                 prev_continue_pc |-> None ],
                    returns_to_skip |-> 1 ])]

ExpectedCallEntry(value, count, call_type) ==
    [ expected |-> [value |-> value, count |-> count, call_type |-> call_type],
      actual_count |-> 0 ]

expect_call_Overwrite(w, callee, calldata, value, count, call_type) ==
    LET w1 == IF ContainsKey(w.t.expected_calls, callee)
              THEN w
              ELSE [w EXCEPT !.t.expected_calls = Insert(@, callee, EmptyMap)]
    IN  [w1 EXCEPT !.t.expected_calls[callee] =
            Insert(@, calldata, ExpectedCallEntry(value, count, call_type))]

expect_call(w, callee, calldata, value, count, call_type) ==
    LET w1 == IF ContainsKey(w.t.expected_calls, callee)
              THEN w
              ELSE [w EXCEPT !.t.expected_calls = Insert(@, callee, EmptyMap)]
        expecteds == w1.t.expected_calls[callee]
    IN  CASE call_type = "Count" ->
                IF ContainsKey(expecteds, calldata)
                THEN Panic(w1, "counted expected calls can only bet set once")
                ELSE [w1 EXCEPT !.t.expected_calls[callee] =
                         Insert(@, calldata, ExpectedCallEntry(value, count, call_type))]
          [] call_type = "NonCount" ->
                IF ContainsKey(expecteds, calldata)
                THEN IF expecteds[calldata].expected.call_type /= "NonCount"
                     THEN Panic(w1,
                         "cannot overwrite a counted expectCall with a non-counted expectCall")
                     ELSE [w1 EXCEPT
                              !.t.expected_calls[callee][calldata].expected.count = @ + 1]
                ELSE [w1 EXCEPT !.t.expected_calls[callee] =
                         Insert(@, calldata, ExpectedCallEntry(value, count, call_type))]

start_prank_Unchecked(w, sender, origin) ==
    IF IsNone(origin)
    THEN [w EXCEPT !.t.permanent_actions.start_prank =
             Some([sender |-> sender, origin |-> None])]
    ELSE LET original_tx_origin == read_value(w.st, TxOriginKey)
             w1 == write_storage(w, TxOriginKey, Unwrap(origin))
         IN  [w1 EXCEPT !.t.permanent_actions.start_prank =
                 Some([sender |-> sender, origin |-> Some(original_tx_origin)])]

start_prank(w, sender, origin) ==
    IF IsSome(w.t.permanent_actions.broadcast)
    THEN w
    ELSE IF IsNone(origin)
    THEN [w EXCEPT !.t.permanent_actions.start_prank =
             Some([sender |-> sender, origin |-> None])]
    ELSE LET original_tx_origin == read_value(w.st, TxOriginKey)
             w1 == write_storage(w, TxOriginKey, Unwrap(origin))
         IN  [w1 EXCEPT !.t.permanent_actions.start_prank =
                 Some([sender |-> sender, origin |-> Some(original_tx_origin)])]

stop_prank(w) ==
    LET prank == w.t.permanent_actions.start_prank
        w1 == [w EXCEPT !.t.permanent_actions.start_prank = None]
    IN  IF IsSome(prank) /\ IsSome(Unwrap(prank).origin)
        THEN write_storage(w1, TxOriginKey, Unwrap(Unwrap(prank).origin))
        ELSE w1

start_broadcast(w, new_origin) ==
    IF IsSome(w.t.permanent_actions.start_prank)
    THEN w
    ELSE LET original_tx_origin == read_value(w.st, TxOriginKey)
         IN  [w EXCEPT !.t.permanent_actions.broadcast =
                 Some([ new_origin |-> IF IsSome(new_origin) THEN Unwrap(new_origin)
                                       ELSE original_tx_origin,
                        original_origin |-> original_tx_origin,
                        original_caller |-> Current(w.vm).msg_sender,
                        depth |-> Depth(w.vm) ])]

(* A stop_broadcast that clears the broadcast and schedules nothing.        *)
stop_broadcast_NoRestore(w) == [w EXCEPT !.t.permanent_actions.broadcast = <<>>]

stop_broadcast(w) ==
    IF IsSome(w.t.permanent_actions.broadcast)
    THEN push([w EXCEPT !.t.permanent_actions.broadcast = None],
              SetOrigin(Unwrap(w.t.permanent_actions.broadcast).original_origin))
    ELSE w

---------------------------------------------------------------------------
(* dispatch_cheatcode: one arm per decoded Vm::VmCalls variant.            *)
Snapshot == [kind |-> "Snapshot"]
RevertToSnapshot(snapshot_id) ==
    [kind |-> "RevertToSnapshot", snapshot_id |-> snapshot_id]

MockCall(callee, data, return_data) ==
    [ filter |-> [address |-> callee, calldata |-> data, return_data |-> return_data],
      mock_next |-> None ]

(* Block info is the pair <<block number, block timestamp>>. *)
unpack_block_info(info) == info
pack_block_info(number, timestamp) == <<number, timestamp>>

CreateSelectFork(url_or_alias, block_number) ==
    [kind |-> "CreateSelectFork", url_or_alias |-> url_or_alias,
     block_number |-> block_number]
CreateFork(url_or_alias, block_number) ==
    [kind |-> "CreateFork", url_or_alias |-> url_or_alias, block_number |-> block_number]
RollFork(block_number, fork_id) ==
    [kind |-> "RollFork", block_number |-> block_number, fork_id |-> fork_id]
SelectFork(fork_id) == [kind |-> "SelectFork", fork_id |-> fork_id]

(* createSelectFork and selectFork schedule their action only when no      *)
(* broadcast is active, and log an error otherwise.                        *)
push_unless_broadcast_Always(w, action) == push(w, action)

push_unless_broadcast(w, action) ==
    IF IsNone(w.t.permanent_actions.broadcast)
    THEN push(w, action)
    ELSE w

(* Lines 1464-1470 and 2147-2149, etch: the bytecode is stored as a        *)
(* factory dependency under its hash and the hash is written to the        *)
(* target's code slot.                                                     *)
StoreFactoryDep(hash, bytecode) ==
    [kind |-> "StoreFactoryDep", hash |-> hash, bytecode |-> bytecode]

store_factory_dep(w, hash, bytecode) == push(w, StoreFactoryDep(hash, bytecode))

get_code_key(account) == <<ACCOUNT_CODE_STORAGE_ADDRESS, account>>

bytecode_to_factory_dep(bytecode) ==
    [hash |-> <<"hash of", bytecode>>, code |-> bytecode]

(* Lines 1564-1594, ffi: the subprocess's stdout, trimmed of a leading 0x, *)
(* is returned hex-decoded when it is hex and byte for byte when it is     *)
(* not.  `output` is what Command::output() gave: Err, or Ok with stdout.  *)
ResolvableUrls == {"rpc"}
rpc_endpoints == [alias \in ResolvableUrls |-> "https://rpc.example"]
HexDigits == {"2a", "ff"}

trim_start_matches_0x(text) == IF text /= <<>> /\ text[1] = "0x" THEN Tail(text) ELSE text

hex_decode(text) ==
    IF \A i \in 1..Len(text) : text[i] \in HexDigits
    THEN [ok |-> TRUE, bytes |-> text]
    ELSE Err("hex")

ffi(w, command_input, output) ==
    IF command_input = <<>>
    THEN w
    ELSE IF ~output.ok
    THEN w
    ELSE IF \E i \in 1..Len(output.stdout) : output.stdout[i] = INVALID_BYTE
    THEN w
    ELSE LET hex == hex_decode(trim_start_matches_0x(output.stdout))
             encoded_stdout == IF hex.ok THEN hex.bytes ELSE output.stdout
         IN  [w EXCEPT !.t.return_data = Some(<<encoded_stdout>>)]

(* Lines 2141-2143: the arm for every cheatcode without a handler. *)
unrecognized_cheatcode_ReturnsZero(w) ==
    [w EXCEPT !.t.return_data = Some(<<0>>)]

unrecognized_cheatcode(w) == w

expect_emit(w, checks) ==
    [w EXCEPT !.t.emit_config.expected_emit_state = "ExpectedEmitTriggered",
              !.t.emit_config.expect_emits_since = w.vm.timestamp,
              !.t.emit_config.checks = checks]

dispatch_cheatcode(w, call) ==
    CASE call.name = "expectRevert_0" ->
            add_expect_revert(w, None, Depth(w.vm))
      [] call.name \in {"expectRevert_1", "expectRevert_2"} ->
            add_expect_revert(w, Some(call.revertData), Depth(w.vm))
      [] call.name = "expectCall_0" ->
            expect_call(w, call.callee, call.data, None, 1, "NonCount")
      [] call.name = "expectCall_1" ->
            expect_call(w, call.callee, call.data, None, call.count, "Count")
      [] call.name = "expectCall_2" ->
            expect_call(w, call.callee, call.data, Some(call.msgValue), 1, "NonCount")
      [] call.name = "expectCall_3" ->
            expect_call(w, call.callee, call.data, Some(call.msgValue), call.count, "Count")
      [] call.name = "expectEmit_0" ->
            expect_emit(w, EmitChecks(None, call.checkTopics, call.checkData))
      [] call.name = "expectEmit_1" ->
            [expect_emit(w, EmitChecks(Some(call.emitter), call.checkTopics,
                                       call.checkData))
                EXCEPT !.t.emit_config.call_depth = Depth(w.vm)]
      [] call.name = "expectEmit_2" ->
            expect_emit(w, EmitChecks(None, <<TRUE, TRUE, TRUE>>, TRUE))
      [] call.name = "etch" ->
            LET code_key == get_code_key(call.target)
                dep == bytecode_to_factory_dep(call.newRuntimeBytecode)
            IN  write_storage(store_factory_dep(w, dep.hash, dep.code),
                              code_key, dep.hash)
      [] call.name = "ffi" -> ffi(w, call.commandInput, call.output)
      [] call.name = "readFile" ->
            IF call.read.ok
            THEN [w EXCEPT !.t.return_data = Some(<<call.read.data>>)]
            ELSE w
      [] call.name = "rpcUrl" ->
            IF call.rpcAlias \in ResolvableUrls
            THEN [w EXCEPT !.t.return_data = Some(<<rpc_endpoints[call.rpcAlias]>>)]
            ELSE Panic(w, "Failed to resolve env var: environment variable not found")
      [] call.name = "writeFile" -> w
      [] call.name = "mockCall_0" ->
            [w EXCEPT !.t.mock_calls =
                Append(@, MockCall(call.callee, call.data, call.returnData))]
      [] call.name = "revertTo" ->
            [push(w, RevertToSnapshot(call.snapshotId))
                EXCEPT !.t.return_data = Some(<<1>>)]
      [] call.name = "roll" ->
            write_storage(w, BlockInfoKey,
                pack_block_info(call.newHeight,
                                unpack_block_info(read_value(w.st, BlockInfoKey))[2]))
      [] call.name = "setNonce" ->
            set_nonce(w, call.account, Some(call.newNonce), Some(call.newNonce))
      [] call.name = "snapshot" -> push(w, Snapshot)
      [] call.name = "startBroadcast_0" -> start_broadcast(w, None)
      [] call.name = "startBroadcast_1" -> start_broadcast(w, Some(call.signer))
      [] call.name = "startPrank_0" -> start_prank(w, call.msgSender, None)
      [] call.name = "startPrank_1" ->
            start_prank(w, call.msgSender, Some(call.txOrigin))
      [] call.name = "stopBroadcast" -> stop_broadcast(w)
      [] call.name = "stopPrank" -> stop_prank(w)
      [] call.name = "store" ->
            write_storage(w, <<call.target, call.slot>>, call.value)
      [] call.name = "rollFork_0" -> push(w, RollFork(call.blockNumber, None))
      [] call.name = "rollFork_2" ->
            push(w, RollFork(call.blockNumber, Some(call.forkId)))
      [] call.name = "createSelectFork_0" ->
            push_unless_broadcast(w, CreateSelectFork(call.urlOrAlias, None))
      [] call.name = "createSelectFork_1" ->
            push_unless_broadcast(w,
                CreateSelectFork(call.urlOrAlias, Some(call.blockNumber)))
      [] call.name = "createFork_0" -> push(w, CreateFork(call.urlOrAlias, None))
      [] call.name = "createFork_1" ->
            push(w, CreateFork(call.urlOrAlias, Some(call.blockNumber)))
      [] call.name = "selectFork" -> push_unless_broadcast(w, SelectFork(call.forkId))
      [] OTHER -> unrecognized_cheatcode(w)

---------------------------------------------------------------------------
(* after_execution, lines 596-698: the far-call tail.                      *)
(* A far-call tail without the branch of lines 596-606.                    *)
skip_account_code_storage_Never(w) == w

skip_account_code_storage(w) ==
    IF /\ Current(w.vm).code_address = ACCOUNT_CODE_STORAGE_ADDRESS
       /\ IsSome(w.t.next_return_action)
       /\ Unwrap(w.t.next_return_action).target_depth + 1 = Depth(w.vm)
    THEN [w EXCEPT !.t.next_return_action[1].returns_to_skip = @ + 1]
    ELSE w

BroadcastableTransaction(from, to, value, data, nonce) ==
    [from |-> from, to |-> to, value |-> value, data |-> data, nonce |-> nonce]

(* record_broadcast without the caller test of line 618.                   *)
record_broadcast_AnyCaller(w, o) ==
    IF IsNone(w.t.permanent_actions.broadcast)
    THEN w
    ELSE LET broadcast == Unwrap(w.t.permanent_actions.broadcast)
         IN  IF Depth(w.vm) = broadcast.depth
             THEN LET w1 == push(w, SetOrigin(broadcast.new_origin))
                      nonce == get_nonce(w1, broadcast.new_origin)[1]
                      tx == BroadcastableTransaction(broadcast.new_origin,
                                Current(w.vm).code_address, <<>>, o.calldata, nonce)
                      w2 == [w1 EXCEPT !.t.broadcastable_transactions = Append(@, tx)]
                  IN  set_nonce(w2, broadcast.new_origin, <<nonce + 1>>, <<>>)
             ELSE w

record_broadcast(w, o) ==
    IF IsNone(w.t.permanent_actions.broadcast)
    THEN w
    ELSE LET broadcast == Unwrap(w.t.permanent_actions.broadcast)
             current == Current(w.vm)
             prev_cs == Inner(w.vm)[Len(Inner(w.vm))]
         IN  IF /\ Depth(w.vm) = broadcast.depth
                /\ prev_cs.this_address = broadcast.original_caller
             THEN LET w1 == push(w, SetOrigin(broadcast.new_origin))
                      nonce == get_nonce(w1, broadcast.new_origin)[1]
                      simulated == current.code_address = MSG_VALUE_SIMULATOR_ADDRESS
                      tx == BroadcastableTransaction(
                                broadcast.new_origin,
                                IF simulated THEN o.simulated_to ELSE current.code_address,
                                IF simulated THEN Some(o.simulated_value) ELSE None,
                                o.calldata,
                                nonce)
                      w2 == [w1 EXCEPT !.t.broadcastable_transactions = Append(@, tx)]
                  IN  set_nonce(w2, broadcast.new_origin, Some(nonce + 1), None)
             ELSE w

(* Lines 682-685: a cheatcode call without a code page or without gas is   *)
(* logged and dropped.                                                     *)
PAGE_ZERO == "page 0"

cheatcode_call_ignored_Never(current) == FALSE

cheatcode_call_ignored(current) ==
    current.code_page = PAGE_ZERO \/ current.ergs_remaining = 0

(* Lines 686-697: Vm::VmCalls::abi_decode of the calldata.  The far call's *)
(* `call` operand is what its calldata decodes to, Undecodable when it     *)
(* decodes to nothing.                                                     *)
Undecodable == [name |-> "undecodable"]

abi_decode(o) ==
    IF o.call = Undecodable THEN Err("abi_decode") ELSE [ok |-> TRUE, call |-> o.call]

far_call_tail(w, o) ==
    IF o.opcode /= "FarCall"
    THEN w
    ELSE LET w1 == skip_account_code_storage(w)
         IN  IF Current(w1.vm).code_address /= CHEATCODE_ADDRESS
             THEN record_broadcast(w1, o)
             ELSE IF cheatcode_call_ignored(Current(w1.vm))
             THEN w1
             ELSE IF ~calldata_ptr_is_pointer(o)
             THEN Panic(w1, "assertion failed: ptr.is_pointer")
             ELSE IF abi_decode(o).ok
             THEN dispatch_cheatcode(w1, abi_decode(o).call)
             ELSE w1

after_execution(w, o) ==
    LET s0 == track_emits(w, o)
        s1 == Then(s0, LAMBDA x : test_finish(x, o))
        s2 == Then(s1, LAMBDA x : handle_return(x, o))
        s3 == Then(s2, LAMBDA x : count_expected_calls(x, o))
        s4 == Then(s3, LAMBDA x : match_mock_calls(x, o))
        s5 == Then(s4, LAMBDA x : save_return_ptr(x, o))
        s6 == Then(s5, LAMBDA x : broadcast_on_ret(x, o))
        s7 == Then(s6, LAMBDA x : count_near_calls(x, o))
    IN  Then(s7, LAMBDA x : far_call_tail(x, o))

---------------------------------------------------------------------------
(* finish_cycle: the deferred actions, applied last-in first-out.          *)
Restrict(m, keys) == [k \in keys |-> m[k]]
Extend(m, n) == n @@ m

(* A merge in which the cumulative value wins over the pending one.        *)
get_modified_storage_CumulativeWins(t, modified_storage_keys) ==
    LET NotSystem(m) ==
            Restrict(m, { k \in DOMAIN m : KeyAddress(k) /= SYSTEM_CONTEXT_ADDRESS })
    IN  Extend(NotSystem(modified_storage_keys), NotSystem(t.storage_modifications.keys))

get_modified_storage(t, modified_storage_keys) ==
    LET NotSystem(m) ==
            Restrict(m, { k \in DOMAIN m : KeyAddress(k) /= SYSTEM_CONTEXT_ADDRESS })
    IN  Extend(NotSystem(t.storage_modifications.keys), NotSystem(modified_storage_keys))

(* The ABI encoding of a value into return-data words is kept abstract.    *)
to_return_data(value) == <<value>>

set_return(v, elements) == [v EXCEPT !.returndata = elements]

SetImmediateReturn(data, continue_pc, base_memory_page, code_page) ==
    [kind |-> "SetImmediateReturn", data |-> data, continue_pc |-> continue_pc,
     base_memory_page |-> base_memory_page, code_page |-> code_page]

(* data.chunks(32) and U256::from_big_endian: the bytes are cut into       *)
(* chunks of 32, and a chunk is read as a big-endian number, which pads a  *)
(* short last chunk with zero bytes on the left.  A word is written as its *)
(* 32 bytes.                                                               *)
CHUNK_BYTES == 32
ZERO_BYTE == "00"

RECURSIVE chunks(_)
chunks(data) ==
    IF Len(data) <= CHUNK_BYTES
    THEN IF data = <<>> THEN <<>> ELSE <<data>>
    ELSE <<SubSeq(data, 1, CHUNK_BYTES)>> \o chunks(SubSeq(data, CHUNK_BYTES + 1, Len(data)))

from_big_endian(chunk) ==
    [i \in 1..CHUNK_BYTES |->
        IF i <= CHUNK_BYTES - Len(chunk) THEN ZERO_BYTE
        ELSE chunk[i - (CHUNK_BYTES - Len(chunk))]]

(* The cycle end rewrites the return-data register and turns the current   *)
(* frame to the recorded pc, memory page and code page; no frame is popped.*)
apply_set_immediate_return(w, action) ==
    LET data_chunks == chunks(action.data)
        data == [i \in 1..Len(data_chunks) |-> from_big_endian(data_chunks[i])]
    IN  [w EXCEPT !.vm = SetCurrent(set_return(@, data),
                            [Current(@) EXCEPT !.pc = action.continue_pc,
                                               !.base_memory_page = action.base_memory_page,
                                               !.code_page = action.code_page])]

apply_snapshot(w) ==
    LET modified_storage == get_modified_storage(w.t, w.st.modified_storage_keys)
        snapshot_id == w.db.next_snapshot_id
    IN  [w EXCEPT !.db.next_snapshot_id = @ + 1,
                  !.db.snapshots = @ \cup {snapshot_id},
                  !.t.saved_snapshots =
                      Insert(@, snapshot_id, [modified_storage |-> modified_storage]),
                  !.st.modified_storage_keys = modified_storage,
                  !.t.return_data = Some(to_return_data(snapshot_id))]

apply_revert_to_snapshot_Keep(w, snapshot_id) ==
    LET w1 == [w EXCEPT !.db.snapshots = @ \ {snapshot_id}]
    IN  IF ~ContainsKey(w.t.saved_snapshots, snapshot_id)
        THEN Panic(w1, "unwrap on None: saved_snapshots.remove")
        ELSE [w1 EXCEPT !.st.modified_storage_keys =
                            w.t.saved_snapshots[snapshot_id].modified_storage]

apply_revert_to_snapshot(w, snapshot_id) ==
    LET w1 == [w EXCEPT !.db.snapshots = @ \ {snapshot_id}]
    IN  IF ~ContainsKey(w.t.saved_snapshots, snapshot_id)
        THEN Panic(w1, "unwrap on None: saved_snapshots.remove")
        ELSE [w1 EXCEPT !.st.modified_storage_keys =
                            w.t.saved_snapshots[snapshot_id].modified_storage,
                        !.t.saved_snapshots = Remove(@, snapshot_id)]

apply_set_origin(w, origin) ==
    IF Depth(w.vm) = 0
    THEN Panic(w, "callstack before the current")
    ELSE [w EXCEPT !.vm.callstack[Len(w.vm.callstack) - 1].this_address = origin,
                   !.st = set_value(@, TxOriginKey, origin)]

apply_force(w, data, pc) ==
    [w EXCEPT !.t.return_data = None,
              !.vm = SetCurrent(set_return(@, to_return_data(data)),
                                [Current(@) EXCEPT !.pc = pc])]

(* The fork backend.  A fork is created from an RPC endpoint the config    *)
(* resolves, at the given block or at the latest one (None); results of    *)
(* the backend that are errors are unwrapped by the tracer.                *)
UrlsOrAliases == ResolvableUrls \cup {"unresolved_alias"}

create_fork_request(w, url_or_alias, block_number) ==
    IF url_or_alias \notin ResolvableUrls
    THEN Panic(w, "unwrap on Err: config.rpc_url")
    ELSE w

create_fork(d, block_number) ==
    [d EXCEPT !.forks = Insert(@, d.next_fork_id, block_number),
              !.next_fork_id = @ + 1]

apply_create_select_fork(w, action) ==
    LET modified_storage == get_modified_storage(w.t, w.st.modified_storage_keys)
        fork_id == w.db.next_fork_id
        w1 == create_fork_request(
                  Called(w, <<"get_modified_storage", "clean_cache",
                              "db.create_select_fork">>),
                  action.url_or_alias, action.block_number)
    IN  IF IsSome(w1.panic)
        THEN w1
        ELSE [w1 EXCEPT !.db = [create_fork(@, action.block_number)
                                   EXCEPT !.active_fork = Some(fork_id)],
                        !.st.modified_storage_keys = modified_storage,
                        !.t.return_data = Some(to_return_data(fork_id))]

apply_create_fork(w, action) ==
    LET fork_id == w.db.next_fork_id
        w1 == create_fork_request(Called(w, <<"db.create_fork">>),
                                  action.url_or_alias, action.block_number)
    IN  IF IsSome(w1.panic)
        THEN w1
        ELSE [w1 EXCEPT !.db = create_fork(@, action.block_number),
                        !.t.return_data = Some(to_return_data(fork_id))]

apply_roll_fork(w, action) ==
    LET modified_storage == get_modified_storage(w.t, w.st.modified_storage_keys)
        target == IF IsSome(action.fork_id) THEN action.fork_id ELSE w.db.active_fork
        w1 == Called(w, <<"get_modified_storage", "clean_cache", "db.roll_fork">>)
    IN  IF IsNone(target) \/ ~ContainsKey(w.db.forks, Unwrap(target))
        THEN Panic(w1, "unwrap on Err: db.roll_fork")
        ELSE [w1 EXCEPT !.db.forks[Unwrap(target)] = Some(action.block_number),
                       !.st.modified_storage_keys = modified_storage]

(* A selectFork that switches without writing the captured delta back.    *)
apply_select_fork_DropDelta(w, action) ==
    IF ~ContainsKey(w.db.forks, action.fork_id)
    THEN Panic(w, "unwrap on Err: db.select_fork")
    ELSE [Called(w, <<"get_modified_storage", "clean_cache", "db.select_fork">>)
             EXCEPT !.db.active_fork = Some(action.fork_id),
                    !.st.modified_storage_keys = EmptyMap,
                    !.t.return_data = Some(<<action.fork_id>>)]

apply_select_fork(w, action) ==
    LET modified_storage == get_modified_storage(w.t, w.st.modified_storage_keys)
        w1 == Called(w, <<"get_modified_storage", "clean_cache", "db.select_fork">>)
    IN  IF ~ContainsKey(w.db.forks, action.fork_id)
        THEN Panic(w1, "unwrap on Err: db.select_fork")
        ELSE [w1 EXCEPT !.db.active_fork = Some(action.fork_id),
                       !.st.modified_storage_keys = modified_storage,
                       !.t.return_data = Some(<<action.fork_id>>)]

apply_action(w, action) ==
    CASE action.kind = "StorageWrite" ->
            [w EXCEPT !.st = set_value(@, action.key, action.write_value)]
      [] action.kind = "Snapshot" -> apply_snapshot(w)
      [] action.kind = "RevertToSnapshot" ->
            apply_revert_to_snapshot(w, action.snapshot_id)
      [] action.kind = "SetImmediateReturn" -> apply_set_immediate_return(w, action)
      [] action.kind = "ForceReturn" -> apply_force(w, action.data, action.continue_pc)
      [] action.kind = "ForceRevert" ->
            apply_force(w, action.error, action.exception_handler)
      [] action.kind = "SetOrigin" -> apply_set_origin(w, action.origin)
      [] action.kind = "CreateSelectFork" -> apply_create_select_fork(w, action)
      [] action.kind = "CreateFork" -> apply_create_fork(w, action)
      [] action.kind = "RollFork" -> apply_roll_fork(w, action)
      [] action.kind = "SelectFork" -> apply_select_fork(w, action)
      [] action.kind = "StoreFactoryDep" ->
            [w EXCEPT !.vm.decommittment_processor =
                          Insert(@, action.hash, action.bytecode)]

(* A cycle end that applies the last action only, without the loop.        *)
apply_one_time_actions_Once(w) ==
    IF w.t.one_time_actions = <<>>
    THEN w
    ELSE LET n == Len(w.t.one_time_actions)
             action == w.t.one_time_actions[n]
             popped == [w EXCEPT !.t.one_time_actions = SubSeq(@, 1, n - 1),
                                 !.applied = Append(@, action)]
         IN  apply_action(popped, action)

RECURSIVE apply_one_time_actions_Fifo(_)
apply_one_time_actions_Fifo(w) ==
    IF IsSome(w.panic) \/ w.t.one_time_actions = <<>>
    THEN w
    ELSE LET action == Head(w.t.one_time_actions)
             popped == [w EXCEPT !.t.one_time_actions = Tail(@),
                                 !.applied = Append(@, action)]
         IN  apply_one_time_actions_Fifo(apply_action(popped, action))

RECURSIVE apply_one_time_actions(_)
apply_one_time_actions(w) ==
    IF IsSome(w.panic) \/ w.t.one_time_actions = <<>>
    THEN w
    ELSE LET n == Len(w.t.one_time_actions)
             action == w.t.one_time_actions[n]
             popped == [w EXCEPT !.t.one_time_actions = SubSeq(@, 1, n - 1),
                                 !.applied = Append(@, action)]
         IN  apply_one_time_actions(apply_action(popped, action))

(* finish_cycle, lines 805-851: the expected-emit assertion.               *)
get_events_after_timestamp(v, from_timestamp) ==
    SelectSeq(v.events, LAMBDA event : event.timestamp >= from_timestamp)

LogEntry(address, topics, data) ==
    [address |-> address, topics |-> topics, data |-> data]

parse_events(events) ==
    [ i \in 1..Len(events) |->
        LogEntry(events[i].address, events[i].topics, events[i].data) ]

Get(s, i) == IF i <= Len(s) THEN Some(s[i]) ELSE None

are_logs_equal(a, b, emit_checks) ==
    LET address_match == IF IsSome(emit_checks.address)
                         THEN b.address = Unwrap(emit_checks.address)
                         ELSE TRUE
        topics_match == \A i \in 1..3 :
                            emit_checks.topics[i] => Get(a.topics, i) = Get(b.topics, i)
        data_match == IF emit_checks.data THEN a.data = b.data ELSE TRUE
    IN  address_match /\ topics_match /\ data_match

RECURSIVE compare_logs(_, _, _)
compare_logs(expected_logs, actual_logs, checks) ==
    IF expected_logs = <<>>
    THEN TRUE
    ELSE IF actual_logs = <<>>
         THEN FALSE
         ELSE IF are_logs_equal(Head(expected_logs), Head(actual_logs), checks)
              THEN compare_logs(Tail(expected_logs), Tail(actual_logs), checks)
              ELSE FALSE

(* events.len() - surplus on usize: a build with overflow checks panics    *)
(* when the surplus is the larger one, a build without them wraps around   *)
(* and take() then keeps every event.                                      *)
SubtractOverflows(events, surplus) == Len(surplus) > Len(events)

take_without_surplus(events, surplus) ==
    IF SubtractOverflows(events, surplus)
    THEN events
    ELSE SubSeq(events, 1, Len(events) - Len(surplus))

expected_logs_of(w) ==
    parse_events(take_without_surplus(
        get_events_after_timestamp(w.vm, w.t.emit_config.expect_emits_since),
        get_events_after_timestamp(w.vm, w.t.emit_config.expect_emits_until)))

actual_logs_of(w) ==
    parse_events(take_without_surplus(
        get_events_after_timestamp(w.vm, w.t.emit_config.call_emits_since),
        get_events_after_timestamp(w.vm, w.t.emit_config.call_emits_until)))

EmitSubtractOverflows(w) ==
    \/ SubtractOverflows(
           get_events_after_timestamp(w.vm, w.t.emit_config.expect_emits_since),
           get_events_after_timestamp(w.vm, w.t.emit_config.expect_emits_until))
    \/ SubtractOverflows(
           get_events_after_timestamp(w.vm, w.t.emit_config.call_emits_since),
           get_events_after_timestamp(w.vm, w.t.emit_config.call_emits_until))

assert_emits(w) ==
    IF w.t.emit_config.expected_emit_state = "Assert"
    THEN LET w1 == [w EXCEPT !.t.emit_config.expected_emit_state = "Finished"]
         IN  IF w.vm.overflow_checks /\ EmitSubtractOverflows(w)
             THEN Panic(w1, "attempt to subtract with overflow")
             ELSE IF compare_logs(expected_logs_of(w), actual_logs_of(w),
                                  w.t.emit_config.checks)
                  THEN w1
                  ELSE Panic(w1, "assertion failed: compare_logs")
    ELSE w

write_return_data(w) ==
    IF IsSome(w.t.return_ptr)
    THEN IF IsNone(w.t.return_data)
         THEN Panic([w EXCEPT !.t.return_ptr = None], "unwrap on None: return_data.take")
         ELSE [w EXCEPT !.t.return_ptr = None,
                        !.t.return_data = None,
                        !.vm = set_return(@, Unwrap(w.t.return_data))]
    ELSE w

apply_prank_NoInternalCheck(w) ==
    IF IsSome(w.t.permanent_actions.start_prank)
    THEN [w EXCEPT !.vm = SetCurrent(@, [Current(@) EXCEPT !.msg_sender =
                              Unwrap(w.t.permanent_actions.start_prank).sender])]
    ELSE w

apply_prank(w) ==
    IF /\ IsSome(w.t.permanent_actions.start_prank)
       /\ Current(w.vm).this_address \notin INTERNAL_CONTRACT_ADDRESSES
    THEN [w EXCEPT !.vm = SetCurrent(@, [Current(@) EXCEPT !.msg_sender =
                              Unwrap(w.t.permanent_actions.start_prank).sender])]
    ELSE w

(* A cycle end that takes the pending immediate return and never turns it *)
(* into an action.                                                         *)
take_immediate_return_NoPush(w) ==
    [w EXCEPT !.t.permanent_actions.immediate_return = None]

take_immediate_return(w) ==
    LET immediate_return == w.t.permanent_actions.immediate_return
        w1 == [w EXCEPT !.t.permanent_actions.immediate_return = None]
    IN  IF /\ IsSome(immediate_return)
           /\ Unwrap(immediate_return).trigger_pc = Current(w.vm).pc
        THEN push(w1, SetImmediateReturn(Unwrap(immediate_return).return_data,
                                         Unwrap(immediate_return).continue_pc,
                                         Unwrap(immediate_return).base_memory_page,
                                         Unwrap(immediate_return).code_page))
        ELSE w1

finish_cycle(w) ==
    LET s1 == assert_emits(w)
        s2 == Then(s1, apply_one_time_actions)
        s3 == Then(s2, write_return_data)
        s4 == Then(s3, apply_prank)
    IN  Then(s4, take_immediate_return)

---------------------------------------------------------------------------
(* The host's interpreter loop: per instruction it calls before_execution, *)
(* executes the instruction, calls after_execution and then finish_cycle.  *)
(* A panic inside a hook unwinds through the host: nothing runs after it.  *)
Commit(w) ==
    /\ tracer' = w.t
    /\ vm' = w.vm
    /\ storage' = w.st
    /\ db' = w.db
    /\ panicked' = w.panic

BeforeExecution(o) ==
    /\ phase = "before"
    /\ IsNone(panicked)
    /\ Executable(vm, o)
    /\ Commit(before_execution(World, o))
    /\ op' = o
    /\ phase' = "execute"
    /\ UNCHANGED <<ncalls, history>>

Execute ==
    /\ phase = "execute"
    /\ IsNone(panicked)
    /\ vm' = ExecuteOp(vm, op)
    /\ ncalls' = IF op.opcode = "FarCall" THEN ncalls + 1 ELSE ncalls
    /\ phase' = "after"
    /\ UNCHANGED <<tracer, storage, db, op, panicked, history>>

(* history: the call depth at which the active prank or broadcast was      *)
(* activated, kept for as long as one of them is active.                   *)
ContextActive(permanent_actions) ==
    IsSome(permanent_actions.start_prank) \/ IsSome(permanent_actions.broadcast)

RecordActivation(h, before, after, depth) ==
    [h EXCEPT !.activation_depth =
        IF ~ContextActive(after) THEN None
        ELSE IF ~ContextActive(before) THEN Some(depth)
        ELSE @]

AfterExecution ==
    /\ phase = "after"
    /\ IsNone(panicked)
    /\ Commit(after_execution(World, op))
    /\ history' = RecordActivation(history, tracer.permanent_actions,
                                   after_execution(World, op).t.permanent_actions,
                                   Depth(vm))
    /\ phase' = "finish"
    /\ UNCHANGED <<op, ncalls>>

(* history: a snapshot applied in this cycle end is remembered with the     *)
(* pending delta it was taken from and the delta it captured; any storage  *)
(* write applied in a cycle end makes every earlier snapshot one that has  *)
(* been written after.                                                     *)
Record(h, queue, pending, next_id, saved) ==
    LET kinds == { queue[i].kind : i \in 1..Len(queue) }
        written == kinds \cap {"StorageWrite", "SetOrigin"} /= {}
        kept == IF written THEN {} ELSE h.unwritten
    IN  IF "Snapshot" \in kinds /\ ContainsKey(saved, next_id)
        THEN [h EXCEPT !.taken_from = Insert(@, next_id, pending),
                       !.captured = Insert(@, next_id, saved[next_id].modified_storage),
                       !.unwritten = kept \cup {next_id}]
        ELSE [h EXCEPT !.unwritten = kept]

FinishCycle ==
    /\ phase = "finish"
    /\ IsNone(panicked)
    /\ Commit(finish_cycle(World))
    /\ history' = [Record(history, tracer.one_time_actions,
                          storage.modified_storage_keys, db.next_snapshot_id,
                          finish_cycle(World).t.saved_snapshots)
                      EXCEPT !.applied = finish_cycle(World).applied,
                             !.calls = finish_cycle(World).calls]
    /\ phase' = "before"
    /\ UNCHANGED <<op, ncalls>>

---------------------------------------------------------------------------
(* Instruction streams.  Calldata is a sequence of bytes; the decoded      *)
(* cheatcode of a far call into the cheatcode address is its `call`.       *)
NoCall == [name |-> "none"]
Calldatas == { <<"01">>, <<"01", "02">>, <<"02">> }
ExpectedCalldatas == { <<"01">>, <<"01", "02">> }

PlainRet == RetOp("Ok", FALSE, 0, Unknown(<<>>))
CallTest == FarCallOp(TEST_ADDRESS, <<"01">>, 0, NoCall, 1, 2)
Cheat(call) == FarCallOp(CHEATCODE_ADDRESS, <<>>, 0, call, 1, 2)

ExpectCallCheats ==
    { [name |-> "expectCall_0", callee |-> "AA", data |-> d] : d \in ExpectedCalldatas }
    \cup { [name |-> "expectCall_1", callee |-> "AA", data |-> <<"01", "02">>,
             count |-> n] : n \in {1, MaxCount} }
    \cup { [name |-> "expectCall_2", callee |-> "AA", data |-> <<"01">>, msgValue |-> 1] }
    \cup { [name |-> "expectCall_3", callee |-> "AA", data |-> <<"01">>, msgValue |-> 1,
            count |-> MaxCount] }

CallsOps ==
    { CallTest, PlainRet }
    \cup { FarCallOp("AA", <<"01">>, 1, NoCall, 1, 2),
           FarCallOp("AA", <<"01", "02">>, 0, NoCall, 1, 2),
           FarCallOp("AA", <<"01", "02">>, 1, NoCall, 1, 2),
           FarCallOp("AA", <<"02">>, 0, NoCall, 1, 2),
           FarCallOp("BB", <<"01", "02">>, 0, NoCall, 1, 2) }
    \cup { Cheat(c) : c \in ExpectCallCheats }

Step(ops) ==
    \/ \E o \in ops : BeforeExecution(o)
    \/ Execute
    \/ AfterExecution
    \/ FinishCycle

NextCalls == Step(CallsOps)
SpecCalls == Init /\ [][NextCalls]_vars

---------------------------------------------------------------------------
(* Properties of the expected-call tracker.                                *)

(* after_execution has just detected the end of the test: the emit         *)
(* assertion is armed and finish_cycle has not run yet.                    *)
TestFinishDetected ==
    phase = "finish" /\ tracer.emit_config.expected_emit_state = "Assert"

ExpectedCallPanic ==
    /\ IsSome(panicked)
    /\ Unwrap(panicked).msg = "Expected call was found a different number of times"

ViolatesKind(entry) ==
    \/ entry.expected.call_type = "Count" /\ entry.actual_count /= entry.expected.count
    \/ entry.expected.call_type = "NonCount" /\ entry.actual_count < entry.expected.count

(* C1: when the test-finish transition is detected, the test is failed if  *)
(* and only if some registered entry violates its kind: an Exact entry     *)
(* with actual_count /= count or an AtLeast entry with actual_count <      *)
(* count.                                                                  *)
C1_FailsIffSomeEntryViolates ==
    TestFinishDetected =>
        ( ExpectedCallPanic <=>
            \E a \in DOMAIN tracer.expected_calls :
                \E c \in DOMAIN tracer.expected_calls[a] :
                    ViolatesKind(tracer.expected_calls[a][c]) )

(* An Exact entry with count 2 that saw one call has failed the test, and  *)
(* another run passed the finish with an Exact entry that saw exactly its  *)
(* count.                                                                  *)
C1_Witness ==
    /\ TestFinishDetected
    /\ ExpectedCallPanic
    /\ \E a \in DOMAIN tracer.expected_calls :
           \E c \in DOMAIN tracer.expected_calls[a] :
               LET e == tracer.expected_calls[a][c]
               IN  e.expected.call_type = "Count" /\ e.expected.count = 2
                   /\ e.actual_count = 1
    /\ Unwrap(panicked).any_of =
           { [address |-> "AA", calldata |-> <<"01", "02">>, actual |-> 1, expected |-> 2] }

(* C2: a far call with callee A, calldata c and value v increases by one   *)
(* the actual_count of every entry registered under A whose calldata is a  *)
(* prefix of c and whose declared value is absent or equal to v, and       *)
(* leaves every other entry's actual_count unchanged.                      *)
C2_Expected(a, c, e) ==
    IF /\ a = op.callee
       /\ IsPrefix(c, op.calldata)
       /\ (IsNone(e.expected.value) \/ e.expected.value = Some(op.value))
    THEN e.actual_count + 1
    ELSE e.actual_count

C2_FarCallCountsMatchingEntries ==
    [][ (phase = "after" /\ op.opcode = "FarCall") =>
          \A a \in DOMAIN tracer.expected_calls :
              \A c \in DOMAIN tracer.expected_calls[a] :
                  tracer'.expected_calls[a][c].actual_count =
                      C2_Expected(a, c, tracer.expected_calls[a][c]) ]_vars

(* A far call to AA with calldata 01 02 has been counted by the entries    *)
(* registered for 01 and for 01 02, and not by one that declares another   *)
(* value.                                                                  *)
C2_Witness ==
    /\ phase = "finish" /\ op.opcode = "FarCall" /\ op.callee = "AA"
    /\ op.calldata = <<"01", "02">> /\ op.value = 0
    /\ ContainsKey(tracer.expected_calls, "AA")
    /\ DOMAIN tracer.expected_calls["AA"] = { <<"01">>, <<"01", "02">> }
    /\ tracer.expected_calls["AA"][<<"01", "02">>].actual_count = 1
    /\ tracer.expected_calls["AA"][<<"01">>].actual_count = 0
    /\ tracer.expected_calls["AA"][<<"01">>].expected.value = Some(1)

(* C3: a key that holds a Count entry is never changed by a later          *)
(* registration of either kind (the registration is rejected), and a       *)
(* NonCount registration of a key that holds a NonCount entry adds one to  *)
(* its required count and keeps its actual_count.                          *)
IsRegistration(a, c) ==
    /\ phase = "after" /\ op.opcode = "FarCall" /\ op.callee = CHEATCODE_ADDRESS
    /\ op.call.name \in {"expectCall_0", "expectCall_1", "expectCall_2", "expectCall_3"}
    /\ op.call.callee = a /\ op.call.data = c

C3_RegistrationInvariant ==
    [][ \A a \in DOMAIN tracer.expected_calls :
          \A c \in DOMAIN tracer.expected_calls[a] :
              LET e == tracer.expected_calls[a][c]
                  f == tracer'.expected_calls[a][c]
              IN  /\ e.expected.call_type = "Count" => f.expected = e.expected
                  /\ (IsRegistration(a, c) /\ e.expected.call_type = "Count") =>
                         IsSome(panicked') /\ f = e
                  /\ ( /\ IsRegistration(a, c)
                       /\ e.expected.call_type = "NonCount"
                       /\ op.call.name \in {"expectCall_0", "expectCall_2"} ) =>
                         /\ f.expected.count = e.expected.count + 1
                         /\ f.expected.call_type = "NonCount"
                         /\ f.actual_count = e.actual_count ]_vars

(* A NonCount key registered three times, with a call seen in between. *)
C3_Witness ==
    /\ ContainsKey(tracer.expected_calls, "AA")
    /\ ContainsKey(tracer.expected_calls["AA"], <<"01">>)
    /\ tracer.expected_calls["AA"][<<"01">>].expected.count = 3
    /\ tracer.expected_calls["AA"][<<"01">>].actual_count = 1

---------------------------------------------------------------------------
(* Instruction streams around prank and broadcast.                         *)
ContextCheats ==
    { [name |-> "startPrank_0", msgSender |-> "sender1"],
      [name |-> "startPrank_1", msgSender |-> "sender1", txOrigin |-> "origin1"],
      [name |-> "startPrank_1", msgSender |-> "sender2", txOrigin |-> "origin2"],
      [name |-> "stopPrank"],
      [name |-> "startBroadcast_0"],
      [name |-> "startBroadcast_1", signer |-> "origin1"],
      [name |-> "stopBroadcast"] }

ContextOps ==
    { CallTest, PlainRet,
      FarCallOp("AA", <<"01">>, 0, NoCall, 1, 2),
      FarCallOp(NONCE_HOLDER_ADDRESS, <<"01">>, 0, NoCall, 1, 2) }
    \cup { Cheat(c) : c \in ContextCheats }

NextContext == Step(ContextOps)
SpecContext == Init /\ [][NextContext]_vars

(* Instruction streams with prank cheatcodes only. *)
PrankOps ==
    { o \in ContextOps :
        o.opcode /= "FarCall" \/ o.call = NoCall \/ o.call.name \in {"startPrank_0", "startPrank_1", "stopPrank"} }

NextPrank == Step(PrankOps)
SpecPrank == Init /\ [][NextPrank]_vars

---------------------------------------------------------------------------
(* Prank and broadcast.                                                    *)
Prank == tracer.permanent_actions.start_prank
Broadcast == tracer.permanent_actions.broadcast
IsCheat(names) ==
    op.opcode = "FarCall" /\ op.callee = CHEATCODE_ADDRESS /\ op.call.name \in names
StartPrankNames == {"startPrank_0", "startPrank_1"}
StartBroadcastNames == {"startBroadcast_0", "startBroadcast_1"}

(* C6: in every reachable state, after any sequence of startPrank,         *)
(* stopPrank, startBroadcast and stopBroadcast cheatcodes, a prank and a   *)
(* broadcast are never active at the same time: start_prank and broadcast  *)
(* of permanent_actions are never both set.                                *)
C6_PrankBroadcastExclusive == ~(IsSome(Prank) /\ IsSome(Broadcast))

(* A startPrank has been dispatched during a broadcast. *)
C6_Witness ==
    /\ phase = "finish"
    /\ IsCheat(StartPrankNames)
    /\ IsSome(Broadcast)

(* C7: while a prank with sender S is active, a finish_cycle leaves the    *)
(* current frame's msg_sender equal to S when the frame's this_address is  *)
(* not an internal/system address, and leaves the msg_sender of a frame    *)
(* whose this_address is an internal/system address as it was.             *)
C7_PrankSetsSender ==
    [][ (phase = "finish" /\ IsSome(Prank) /\ IsNone(panicked'))
        => /\ Current(vm').this_address = Current(vm).this_address
           /\ Current(vm').msg_sender =
                 IF Current(vm).this_address \notin INTERNAL_CONTRACT_ADDRESSES
                 THEN Unwrap(Prank).sender
                 ELSE Current(vm).msg_sender ]_vars

(* Under a prank, a frame of an internal address called from a pranked     *)
(* frame keeps its real caller.                                            *)
C7_Witness ==
    /\ phase = "before"
    /\ IsSome(Prank)
    /\ Depth(vm) >= 2
    /\ Current(vm).this_address \in INTERNAL_CONTRACT_ADDRESSES
    /\ Current(vm).msg_sender /= Unwrap(Prank).sender
    /\ Inner(vm)[Len(Inner(vm))].this_address \notin INTERNAL_CONTRACT_ADDRESSES
    /\ Inner(vm)[Len(Inner(vm))].msg_sender = Unwrap(Prank).sender

(* C8: stopPrank restores the original transaction origin: after one or    *)
(* more startPrank calls, stopPrank and the next cycle end, no prank is    *)
(* active and the tx-origin slot holds the value it had before the first   *)
(* startPrank.  Only pranks write the slot here, so that value is the      *)
(* slot's initial one.                                                     *)
C8_StopPrankRestoresOrigin ==
    (phase = "before" /\ IsCheat({"stopPrank"}) /\ IsNone(panicked))
        => /\ IsNone(Prank)
           /\ read_value(storage, TxOriginKey) = BaseValue(TxOriginKey)

C9_AtBroadcastDepth ==
    /\ op.opcode = "Ret"
    /\ IsSome(Broadcast)
    /\ Depth(vm) = Unwrap(Broadcast).depth
    /\ Current(vm).code_address /= CHEATCODE_ADDRESS

---------------------------------------------------------------------------
(* Instruction streams around expectRevert.                                *)
ExpectedReasons == { <<>>, <<"a">>, <<INVALID_BYTE>> }

ExpectRevertCheats ==
    { [name |-> "expectRevert_0"] }
    \cup { [name |-> "expectRevert_2", revertData |-> r] : r \in ExpectedReasons }

RevertPayloads ==
    { Unknown(<<>>), Unknown(<<"a">>), Unknown(<<INVALID_BYTE>>),
      General(<<"a">>), General(<<"b">>), General(<<REPLACEMENT_CHARACTER>>) }

RevertOps ==
    { CallTest, PlainRet, FarCallOp("AA", <<"01">>, 0, NoCall, 1, 2),
      RetOp("Panic", FALSE, 0, Unknown(<<>>)) }
    \cup { Cheat(c) : c \in ExpectRevertCheats }
    \cup { RetOp("Revert", FALSE, 0, p) : p \in RevertPayloads }

NextRevert == Step(RevertOps)
SpecRevert == Init /\ [][NextRevert]_vars

(* The return an armed expectRevert watches has just executed as a Revert:  *)
(* the stack is at the target depth and no return is left to skip.         *)
WatchedRevert ==
    /\ phase = "after"
    /\ op.opcode = "Ret"
    /\ op.ret = "Revert"
    /\ IsSome(tracer.next_return_action)
    /\ Depth(vm) = Unwrap(tracer.next_return_action).target_depth
    /\ Unwrap(tracer.next_return_action).returns_to_skip = 0

ExpectedReason == Unwrap(tracer.next_return_action).action.reason

(* What the watched revert schedules: a ForceReturn when the expectation   *)
(* passes, a ForceRevert with an error message when it does not.           *)
Scheduled(passes) ==
    /\ IsNone(panicked')
    /\ IsNone(tracer'.next_return_action)
    /\ Len(tracer'.one_time_actions) = Len(tracer.one_time_actions) + 1
    /\ LET action == tracer'.one_time_actions[Len(tracer'.one_time_actions)]
       IN  IF passes
           THEN action.kind = "ForceReturn"
           ELSE action.kind = "ForceRevert" /\ action.error /= ""

(* The UTF-8 encoding of a string: U+FFFD is the three bytes EF BF BD. *)
RECURSIVE as_bytes(_)
as_bytes(msg) ==
    IF msg = <<>> THEN <<>>
    ELSE (IF msg[1] = REPLACEMENT_CHARACTER THEN <<"xEF", "xBF", "xBD">> ELSE <<msg[1]>>)
         \o as_bytes(Tail(msg))

(* C4 as stated: with reason R the expectation passes iff the payload's    *)
(* decoded message, or its raw data when the selector is unknown, equals R.*)
C4_EqualsReason(payload, R) ==
    CASE payload.reason.kind = "General" -> as_bytes(payload.reason.msg) = R
      [] payload.reason.kind = "Unknown" -> payload.reason.data = R

C4_PassesIffEqual ==
    [][ WatchedRevert
        => Scheduled(IsNone(ExpectedReason)
                     \/ C4_EqualsReason(op.retdata, Unwrap(ExpectedReason))) ]_vars

(* C4: for an expectRevert armed at depth D, when the watched return at    *)
(* depth D-1 is a Revert with payload P: without a reason a ForceReturn is *)
(* scheduled for every P; with reason R a ForceReturn is scheduled iff P's *)
(* decoded message equals R read as UTF-8 with every invalid byte replaced *)
(* by U+FFFD, or P's raw data equals R when P has an unknown selector, and *)
(* otherwise a ForceRevert carrying an error message is scheduled.         *)
C4_LossyEqualsReason(payload, R) ==
    CASE payload.reason.kind = "General" ->
            /\ Len(payload.reason.msg) = Len(R)
            /\ \A i \in 1..Len(R) :
                  IF R[i] = INVALID_BYTE
                  THEN payload.reason.msg[i] = REPLACEMENT_CHARACTER
                  ELSE payload.reason.msg[i] = R[i]
      [] payload.reason.kind = "Unknown" -> payload.reason.data = R

C4_PassesIffLossyEqual ==
    [][ WatchedRevert
        => Scheduled(IsNone(ExpectedReason)
                     \/ C4_LossyEqualsReason(op.retdata, Unwrap(ExpectedReason))) ]_vars

(* A watched revert whose message is not the expected one has scheduled a  *)
(* ForceRevert.                                                            *)
C4_Witness ==
    /\ phase = "finish"
    /\ op.opcode = "Ret"
    /\ op.ret = "Revert"
    /\ op.retdata = General(<<"b">>)
    /\ IsNone(tracer.next_return_action)
    /\ tracer.one_time_actions /= <<>>
    /\ tracer.one_time_actions[Len(tracer.one_time_actions)].kind = "ForceRevert"

---------------------------------------------------------------------------
(* Instruction streams with the cheatcodes that can be misused.            *)
UsageOps ==
    { CallTest, PlainRet, FarCallOp("AA", <<"01">>, 0, NoCall, 1, 2) }
    \cup { Cheat(c) : c \in ContextCheats \cup ExpectRevertCheats }

NextUsage == Step(UsageOps)
SpecUsage == Init /\ [][NextUsage]_vars

ExpectRevertNames == {"expectRevert_0", "expectRevert_1", "expectRevert_2"}
ExpectRevertAlreadySet == Some([msg |-> "expectRevert already set"])

(* C5 as stated: a usage error never stops the tracer. *)
C5_NeverCrashes == panicked /= ExpectRevertAlreadySet

(* C5: calling expectRevert while an expectation is armed panics with      *)
(* "expectRevert already set", the armed expectation (target depth, reason,*)
(* returns_to_skip) being as it was; startPrank during a broadcast and     *)
(* startBroadcast during a prank leave all tracer state unchanged and the  *)
(* tracer running.                                                         *)
C5_UsageErrors ==
    [][ phase = "after"
        => /\ (IsCheat(ExpectRevertNames) /\ IsSome(tracer.next_return_action))
                => /\ panicked' = ExpectRevertAlreadySet
                   /\ tracer'.next_return_action = tracer.next_return_action
           /\ (IsCheat(StartPrankNames) /\ IsSome(Broadcast))
                => /\ IsNone(panicked')
                   /\ tracer' = tracer
                   /\ storage' = storage
           /\ (IsCheat(StartBroadcastNames) /\ IsSome(Prank))
                => /\ IsNone(panicked')
                   /\ tracer' = tracer
                   /\ storage' = storage ]_vars

(* The tracer has panicked on an expectRevert called while armed. *)
C5_Witness ==
    /\ panicked = ExpectRevertAlreadySet
    /\ IsCheat(ExpectRevertNames)
    /\ IsSome(tracer.next_return_action)

---------------------------------------------------------------------------
(* Instruction streams around snapshots, in a test whose earlier           *)
(* transactions may have modified storage.                                 *)
SnapshotCheats ==
    { [name |-> "snapshot"],
      [name |-> "roll", newHeight |-> 1],
      [name |-> "store", target |-> "AA", slot |-> "slot0", value |-> 2] }
    \cup { [name |-> "revertTo", snapshotId |-> id] : id \in 0..1 }

SnapshotOps == { CallTest, PlainRet } \cup { Cheat(c) : c \in SnapshotCheats }

InitSnapshot == \E sm \in StorageModifications : InitWith(sm)
NextSnapshot == Step(SnapshotOps)
SpecSnapshot == InitSnapshot /\ [][NextSnapshot]_vars

(* The cycle end that applies revertTo(id) for a snapshot that no storage  *)
(* write has followed.                                                     *)
RevertsUnwritten ==
    /\ phase = "finish"
    /\ IsCheat({"revertTo"})
    /\ ContainsKey(tracer.saved_snapshots, op.call.snapshotId)
    /\ op.call.snapshotId \in history.unwritten
    /\ IsNone(panicked')

(* C10: snapshot() then revertTo(id) with no storage write in between is a *)
(* no-op on storage: the pending modified-storage delta after the revert   *)
(* equals, for every key, system-context keys included, the pending delta  *)
(* just before the snapshot was taken.                                     *)
C10_SnapshotRevertIsNoOp ==
    [][ RevertsUnwritten
        => storage'.modified_storage_keys = history.taken_from[op.call.snapshotId] ]_vars

(* The cycle end that applies a revertTo. *)
AppliesRevertTo == phase = "finish" /\ IsCheat({"revertTo"})

SnapshotUnwrapPanic == Some([msg |-> "unwrap on None: saved_snapshots.remove"])

---------------------------------------------------------------------------
(* Instruction streams with fork cheatcodes and broadcasts.                *)
ForkCheats ==
    { [name |-> "createSelectFork_0", urlOrAlias |-> "rpc"],
      [name |-> "createSelectFork_1", urlOrAlias |-> "rpc", blockNumber |-> 1],
      [name |-> "createFork_0", urlOrAlias |-> "rpc"],
      [name |-> "createFork_1", urlOrAlias |-> "rpc", blockNumber |-> 1],
      [name |-> "selectFork", forkId |-> 0],
      [name |-> "rollFork_0", blockNumber |-> 2],
      [name |-> "rollFork_2", blockNumber |-> 2, forkId |-> 0] }

ForkOps ==
    { CallTest, PlainRet,
      Cheat([name |-> "startBroadcast_0"]), Cheat([name |-> "stopBroadcast"]) }
    \cup { Cheat(c) : c \in ForkCheats }

NextFork == Step(ForkOps)
SpecFork == Init /\ [][NextFork]_vars

SelectingForkNames == {"createSelectFork_0", "createSelectFork_1", "selectFork"}
OtherForkNames == {"createFork_0", "createFork_1", "rollFork_0", "rollFork_2"}

(* The fork action a fork cheatcode stands for. *)
ForkActionOf(call) ==
    CASE call.name = "createSelectFork_0" -> CreateSelectFork(call.urlOrAlias, None)
      [] call.name = "createSelectFork_1" ->
            CreateSelectFork(call.urlOrAlias, Some(call.blockNumber))
      [] call.name = "createFork_0" -> CreateFork(call.urlOrAlias, None)
      [] call.name = "createFork_1" -> CreateFork(call.urlOrAlias, Some(call.blockNumber))
      [] call.name = "selectFork" -> SelectFork(call.forkId)
      [] call.name = "rollFork_0" -> RollFork(call.blockNumber, None)
      [] call.name = "rollFork_2" -> RollFork(call.blockNumber, Some(call.forkId))

(* From the dispatch of the cheatcode to the end of its cycle nothing is   *)
(* enqueued and the backend's forks and active fork stay as they are.      *)
ForkOpRejected ==
    /\ phase = "after" => tracer'.one_time_actions = tracer.one_time_actions
    /\ db'.forks = db.forks
    /\ db'.active_fork = db.active_fork
    /\ IsNone(panicked')

(* C12 as stated: while a broadcast is active every fork operation is      *)
(* rejected.                                                               *)
C12_AllForkOpsRejected ==
    [][ (/\ phase \in {"after", "finish"}
         /\ IsCheat(SelectingForkNames \cup OtherForkNames)
         /\ IsSome(Broadcast))
        => ForkOpRejected ]_vars

(* C12: while a broadcast is active, createSelectFork (both overloads) and *)
(* selectFork are rejected: no fork action is enqueued and the backend's   *)
(* forks and active fork are unchanged.  createFork and rollFork are not   *)
(* rejected: each enqueues its CreateFork or RollFork action.              *)
C12_SelectingForkOpsRejected ==
    [][ (phase \in {"after", "finish"} /\ IsSome(Broadcast))
        => /\ IsCheat(SelectingForkNames) => ForkOpRejected
           /\ (phase = "after" /\ IsCheat(OtherForkNames))
                => tracer'.one_time_actions =
                       Append(tracer.one_time_actions, ForkActionOf(op.call)) ]_vars

(* During a broadcast a selectFork of an existing, inactive fork has been  *)
(* dispatched and its cycle has ended.                                     *)
C12_Witness ==
    /\ phase = "before"
    /\ IsCheat({"selectFork"})
    /\ IsSome(Broadcast)
    /\ ContainsKey(db.forks, op.call.forkId)
    /\ db.active_fork /= Some(op.call.forkId)

---------------------------------------------------------------------------
(* Instruction streams around mocked calls.  The return data is one byte   *)
(* or exactly one 32-byte word.                                            *)
OneWord == [i \in 1..CHUNK_BYTES |-> IF i = CHUNK_BYTES THEN "2a" ELSE ZERO_BYTE]
MockReturnDatas == { <<"2a">>, OneWord }

MockCheats ==
    { [name |-> "mockCall_0", callee |-> "AA", data |-> <<"01">>, returnData |-> r] :
        r \in MockReturnDatas }

MockOps ==
    { CallTest, PlainRet, NopOp(1),
      FarCallOp("AA", <<"01">>, 0, NoCall, 1, 2),
      FarCallOp("AA", <<"02">>, 0, NoCall, 1, 2) }
    \cup { Cheat(c) : c \in MockCheats }

NextMock == Step(MockOps)
SpecMock == Init /\ [][NextMock]_vars

(* The cycle of a far call that a mock matched is about to end. *)
MockedCallCycleEnds ==
    /\ phase = "finish"
    /\ op.opcode = "FarCall"
    /\ IsSome(tracer.permanent_actions.immediate_return)

(* C13: mockCall(target, data, returnData) followed by a far call to       *)
(* target with calldata data makes the call return exactly returnData      *)
(* without executing any instruction of target's code: when the call's     *)
(* cycle ends the caller's frame is current again, at the instruction      *)
(* after the call and at the depth it had before the call, and the return  *)
(* data is returnData.                                                     *)
C13_MockedCallReturnsAtOnce ==
    [][ (MockedCallCycleEnds /\ IsNone(panicked'))
        => LET mock == Unwrap(tracer.permanent_actions.immediate_return)
           IN  /\ Depth(vm') = Depth(vm) - 1
               /\ Current(vm').code_page = mock.code_page
               /\ Current(vm').pc = mock.continue_pc
               /\ vm'.returndata = mock.return_data ]_vars


---------------------------------------------------------------------------
(* Expected emits: a test that sets an emit expectation, writes events     *)
(* itself, calls a contract that writes events, and finishes.              *)
Logs == { [topics |-> <<"t1">>, data |-> "d1"],
          [topics |-> <<"t2">>, data |-> "d1"] }

ExpectEmitCheats ==
    { [name |-> "expectEmit_1", checkTopics |-> <<TRUE, FALSE, FALSE>>,
       checkData |-> TRUE, emitter |-> "AA"],
      [name |-> "expectEmit_2"] }

EmitOps ==
    { CallTest, PlainRet, FarCallOp("AA", <<"01">>, 0, NoCall, 1, 2) }
    \cup { EventOp(l.topics, l.data, 1) : l \in Logs }
    \cup { Cheat(c) : c \in ExpectEmitCheats }

InitEmit ==
    /\ \E overflow_checks \in BOOLEAN :
           vm = [callstack |-> <<BootFrame>>, returndata |-> <<>>, timestamp |-> 0,
                 events |-> <<>>, overflow_checks |-> overflow_checks,
                 decommittment_processor |-> EmptyMap]
    /\ InitWith([keys |-> EmptyMap])
NextEmit == Step(EmitOps)
SpecEmit == InitEmit /\ [][NextEmit]_vars

(* expected occurs in actual as an ordered, not necessarily contiguous,    *)
(* subsequence under the checks.                                           *)
RECURSIVE IsSubsequence(_, _, _)
IsSubsequence(expected, actual, checks) ==
    IF expected = <<>>
    THEN TRUE
    ELSE IF actual = <<>>
         THEN FALSE
         ELSE IF are_logs_equal(Head(expected), Head(actual), checks)
              THEN IsSubsequence(Tail(expected), Tail(actual), checks)
              ELSE IsSubsequence(expected, Tail(actual), checks)

(* The cycle end that runs the expected-emit assertion on two windows of   *)
(* the event sink whose lengths the code can compute.                      *)
EmitAssertionRuns == TestFinishDetected /\ ~EmitSubtractOverflows(World)

(* C14: at test finish the comparison passes iff the actual logs contain   *)
(* the expected logs as an ordered, not necessarily contiguous,            *)
(* subsequence under the configured checks.                                *)
C14_PassesIffSubsequence ==
    EmitAssertionRuns =>
        (IsNone(assert_emits(World).panic)
            <=> IsSubsequence(expected_logs_of(World), actual_logs_of(World),
                              tracer.emit_config.checks))


---------------------------------------------------------------------------
(* The three assertions of a test: expected calls, expected emits and an   *)
(* expected revert, each with an input that meets it and one that fails    *)
(* it.                                                                     *)
AssertCheats ==
    { [name |-> "expectCall_0", callee |-> "AA", data |-> <<"02">>],
      [name |-> "expectEmit_2"],
      [name |-> "expectRevert_2", revertData |-> <<"a">>] }

AssertOps ==
    { CallTest, PlainRet,
      FarCallOp("AA", <<"01">>, 0, NoCall, 1, 2),
      FarCallOp("AA", <<"02">>, 0, NoCall, 1, 2),
      EventOp(<<"t1">>, "d1", 1),
      RetOp("Revert", FALSE, 0, General(<<"a">>)),
      RetOp("Revert", FALSE, 0, General(<<"b">>)) }
    \cup { Cheat(c) : c \in AssertCheats }

NextAssert == Step(AssertOps)
SpecAssert == InitEmit /\ [][NextAssert]_vars

(* after_execution is about to see the test's own frame return while an    *)
(* expected call has not been seen the expected number of times.           *)
ExpectedCallMismatch ==
    /\ phase = "after"
    /\ op.opcode = "Ret"
    /\ tracer.test_status.state = "Running"
    /\ tracer.test_status.call_depth = Depth(vm) + 1
    /\ FailedExpectedCalls(tracer.expected_calls) /= {}

(* finish_cycle is about to compare two log windows that differ. *)
ExpectedEmitMismatch ==
    /\ EmitAssertionRuns
    /\ ~compare_logs(expected_logs_of(World), actual_logs_of(World),
                     tracer.emit_config.checks)

(* after_execution is about to see the watched call revert with a reason   *)
(* other than the expected one.                                            *)
ExpectRevertMismatch ==
    /\ WatchedRevert
    /\ IsSome(Unwrap(tracer.next_return_action).action.prev_exception_handler_pc)
    /\ IsSome(Unwrap(tracer.next_return_action).action.prev_continue_pc)
    /\ ~handle_except_revert(ExpectedReason, op.ret, op.retdata).ok

ForceRevertEnqueued ==
    /\ Len(tracer'.one_time_actions) = Len(tracer.one_time_actions) + 1
    /\ tracer'.one_time_actions[Len(tracer'.one_time_actions)].kind = "ForceRevert"
    /\ tracer'.one_time_actions[Len(tracer'.one_time_actions)].error /= ""

(* C15: an expected-call mismatch, an expected-emit mismatch and an        *)
(* expect-revert mismatch are each surfaced as a ForceRevert action with a *)
(* message and never abort the tracer.                                     *)
C15_AssertionFailuresForceRevert ==
    [][ /\ ExpectedCallMismatch => IsNone(panicked') /\ ForceRevertEnqueued
        /\ ExpectedEmitMismatch => IsNone(panicked')
        /\ ExpectRevertMismatch /\ ~ExpectedCallMismatch
               => IsNone(panicked') /\ ForceRevertEnqueued ]_vars


---------------------------------------------------------------------------
(* finish_cycle, line 1366: the status handed back to the host.  The only  *)
(* return of the hook is TracerExecutionStatus::Continue; a panic inside   *)
(* the hook unwinds through the host and hands back nothing.               *)
finish_cycle_status(w) ==
    IF IsSome(finish_cycle(w).panic) THEN None ELSE Some("Continue")

(* C16: finish_cycle returns Continue in every reachable state and for     *)
(* every queued action; it never stops or aborts the host.                 *)
C16_FinishCycleContinues ==
    phase = "finish" /\ IsNone(panicked)
        => finish_cycle_status(World) = Some("Continue")


---------------------------------------------------------------------------
(* Far calls into the cheatcode address: well-formed ones, ones without    *)
(* gas, without a code page, with a calldata register that is no pointer,  *)
(* with calldata that does not decode, and with a cheatcode that has no    *)
(* handler.                                                                *)
Unrecognized == [name |-> "unrecognized"]

DispatchCheats ==
    { [name |-> "startPrank_0", msgSender |-> "AA"],
      [name |-> "snapshot"],
      [name |-> "expectRevert_0"],
      [name |-> "revertTo", snapshotId |-> 0] }

DispatchOps ==
    { CallTest, PlainRet, Cheat(Undecodable), Cheat(Unrecognized) }
    \cup { Cheat(c) : c \in DispatchCheats }
    \cup { [Cheat(c) EXCEPT !.ergs = 0] : c \in DispatchCheats }
    \cup { [Cheat(c) EXCEPT !.code_page = PAGE_ZERO] : c \in DispatchCheats }
    \cup { [Cheat(c) EXCEPT !.is_pointer = FALSE] : c \in DispatchCheats }

NextDispatch == Step(DispatchOps)
SpecDispatch == Init /\ [][NextDispatch]_vars

(* after_execution is about to see a far call that entered the cheatcode   *)
(* address.                                                                *)
CheatcodeCallEntered ==
    /\ phase = "after"
    /\ op.opcode = "FarCall"
    /\ Current(vm).code_address = CHEATCODE_ADDRESS

WithoutGasOrCodePage ==
    Current(vm).ergs_remaining = 0 \/ Current(vm).code_page = PAGE_ZERO

(* The hook returned and left the tracer as it was: no handler ran, the    *)
(* action queue, the pending return data, the expectation trackers and the *)
(* prank/broadcast context are what they were.                             *)
CallIgnored == IsNone(panicked') /\ tracer' = tracer /\ storage' = storage

C18_UnknownCheatcodeChangesNothing ==
    [][ ( /\ CheatcodeCallEntered
          /\ ~WithoutGasOrCodePage
          /\ op.is_pointer
          /\ op.call \in {Undecodable, Unrecognized} )
            => CallIgnored ]_vars

C18_Witness ==
    /\ phase = "finish"
    /\ IsNone(panicked)
    /\ op.opcode = "FarCall"
    /\ op.call = Unrecognized
    /\ Current(vm).code_address = CHEATCODE_ADDRESS
    /\ IsSome(tracer.permanent_actions.start_prank)
    /\ IsSome(tracer.next_return_action)
    /\ IsNone(tracer.return_data)


---------------------------------------------------------------------------
(* Cheatcodes that reach into the environment.  What the environment       *)
(* answers comes with the call: the result of fs::read, of fs::write and   *)
(* of Command::output.                                                     *)
EnvCheats ==
    { [name |-> "readFile", path |-> "f", read |-> r] :
          r \in { Err("io"), [ok |-> TRUE, data |-> <<"2a">>] } }
    \cup { [name |-> "writeFile", path |-> "f", data |-> <<"2a">>, written |-> b] :
          b \in BOOLEAN }
    \cup { [name |-> "ffi", commandInput |-> c, output |-> o] :
          c \in { <<>>, <<"cmd">> },
          o \in { Err("spawn"),
                  [ok |-> TRUE, stdout |-> <<"0x", "2a">>],
                  [ok |-> TRUE, stdout |-> <<"h", "i">>],
                  [ok |-> TRUE, stdout |-> <<INVALID_BYTE>>] } }
    \cup { [name |-> "rpcUrl", rpcAlias |-> a] : a \in UrlsOrAliases }

EnvOps == { CallTest, PlainRet } \cup { Cheat(c) : c \in EnvCheats }

NextEnv == Step(EnvOps)
SpecEnv == Init /\ [][NextEnv]_vars

(* The environment fails the cheatcode that after_execution is about to    *)
(* dispatch.                                                               *)
FileReadFails == op.call.name = "readFile" /\ ~op.call.read.ok
FileWriteFails == op.call.name = "writeFile" /\ ~op.call.written
SpawnFails ==
    op.call.name = "ffi" /\ op.call.commandInput /= <<>> /\ ~op.call.output.ok
AliasUnresolvable ==
    op.call.name = "rpcUrl" /\ op.call.rpcAlias \notin ResolvableUrls

(* C19: a file read or write failure, a subprocess spawn failure and an    *)
(* unresolvable RPC alias are logged; the cheatcode sets no return data,   *)
(* enqueues no action, and the tracer keeps running.                       *)
C19_EnvironmentErrorsDoNotAbort ==
    [][ ( /\ CheatcodeCallEntered
          /\ (FileReadFails \/ FileWriteFails \/ SpawnFails \/ AliasUnresolvable) )
            => CallIgnored ]_vars


---------------------------------------------------------------------------
(* Cheatcodes and calls that leave more than one deferred action for the   *)
(* same cycle end: etch, and a far call under a broadcast.                 *)
Bytecodes == { <<"01">>, <<"02", "03">> }

EtchCheats ==
    { [name |-> "etch", target |-> a, newRuntimeBytecode |-> b] :
          a \in {"AA", "BB"}, b \in Bytecodes }
    \cup { [name |-> "store", target |-> "AA", slot |-> "slot0", value |-> 1],
           [name |-> "startBroadcast_1", signer |-> "origin1"],
           [name |-> "stopBroadcast"] }

EtchOps ==
    { CallTest, PlainRet, FarCallOp("AA", <<"01">>, 0, NoCall, 1, 2) }
    \cup { Cheat(c) : c \in EtchCheats }

NextEtch == Step(EtchOps)
SpecEtch == Init /\ [][NextEtch]_vars

RECURSIVE Reverse(_)
Reverse(s) == IF s = <<>> THEN <<>> ELSE Append(Reverse(Tail(s)), Head(s))

(* C20: the actions in the queue at a cycle end are applied in reverse     *)
(* order of their enqueueing, the last enqueued first.                     *)
C20_AppliedInReverseOrder ==
    [][ (phase = "finish" /\ IsNone(panicked'))
            => history'.applied = Reverse(tracer.one_time_actions) ]_vars

(* etch: the code-hash StorageWrite, enqueued second, was applied before   *)
(* the StoreFactoryDep, enqueued first.                                    *)
C20_Witness ==
    /\ phase = "before"
    /\ IsNone(panicked)
    /\ op.opcode = "FarCall"
    /\ op.call.name = "etch"
    /\ Len(history.applied) = 2
    /\ history.applied[1].kind = "StorageWrite"
    /\ history.applied[1].key = get_code_key(op.call.target)
    /\ history.applied[2].kind = "StoreFactoryDep"
    /\ ContainsKey(vm.decommittment_processor, history.applied[2].hash)
    /\ read_value(storage, get_code_key(op.call.target)) = history.applied[2].hash

---------------------------------------------------------------------------
(* The one-shot queue across cycle ends: actions of several kinds, one     *)
(* enqueued after the drain loop (SetImmediateReturn of a matched mock),   *)
(* one whose application panics (revertTo of an unknown snapshot).         *)
QueueCheats ==
    { [name |-> "etch", target |-> "AA", newRuntimeBytecode |-> <<"01">>],
      [name |-> "store", target |-> "AA", slot |-> "slot0", value |-> 1],
      [name |-> "snapshot"],
      [name |-> "revertTo", snapshotId |-> 0],
      [name |-> "mockCall_0", callee |-> "AA", data |-> <<"01">>,
       returnData |-> <<"2a">>] }

QueueOps ==
    { CallTest, PlainRet, FarCallOp("AA", <<"01">>, 0, NoCall, 1, 2) }
    \cup { Cheat(c) : c \in QueueCheats }

NextQueue == Step(QueueOps)
SpecQueue == Init /\ [][NextQueue]_vars

(* What the drain loop left of the queue it found: the queue after the     *)
(* cycle end without the action pushed after the loop.                     *)
LeftInQueue ==
    IF /\ IsNone(panicked')
       /\ IsSome(tracer.permanent_actions.immediate_return)
       /\ Len(tracer'.one_time_actions) > 0
       /\ tracer'.one_time_actions[Len(tracer'.one_time_actions)].kind
              = "SetImmediateReturn"
       /\ Len(history'.applied) + Len(tracer'.one_time_actions)
              = Len(tracer.one_time_actions) + 1
    THEN SubSeq(tracer'.one_time_actions, 1, Len(tracer'.one_time_actions) - 1)
    ELSE tracer'.one_time_actions

(* C21: at a cycle end every queued action is applied once and is out of   *)
(* the queue when applied: the applied actions and what is left of the     *)
(* queue split the queue the cycle end found, position by position; a      *)
(* cycle end that completes leaves nothing, so no action waits for a later *)
(* cycle end or is applied at one again.                                   *)
C21_AppliedExactlyOnce ==
    [][ phase = "finish" =>
          LET queue == tracer.one_time_actions
              applied == history'.applied
              k == Len(queue) - Len(applied)
          IN  /\ k >= 0
              /\ LeftInQueue = SubSeq(queue, 1, k)
              /\ \A i \in 1..Len(applied) : applied[i] = queue[Len(queue) + 1 - i]
              /\ IsNone(panicked') => k = 0 ]_vars

(* A cycle end found two actions queued, applied both and left the queue   *)
(* empty.                                                                  *)
C21_Witness ==
    /\ phase = "before"
    /\ IsNone(panicked)
    /\ Len(history.applied) = 2
    /\ tracer.one_time_actions = <<>>

---------------------------------------------------------------------------
(* The expected-emit state machine: expectations set before and inside the *)
(* test, with and without a tracked call, and the test's return.           *)
EmitStateCheats ==
    { [name |-> "expectEmit_0", checkTopics |-> <<TRUE, FALSE, FALSE>>,
       checkData |-> TRUE],
      [name |-> "expectEmit_2"] }

EmitStateOps ==
    { CallTest, PlainRet, FarCallOp("AA", <<"01">>, 0, NoCall, 1, 2),
      EventOp(<<"t1">>, "d1", 1) }
    \cup { Cheat(c) : c \in EmitStateCheats }

NextEmitState == Step(EmitStateOps)
SpecEmitState == Init /\ [][NextEmitState]_vars

EmitChain ==
    { <<"NotStarted", "ExpectedEmitTriggered">>,
      <<"ExpectedEmitTriggered", "CallTriggered">>,
      <<"CallTriggered", "Assert">>,
      <<"Assert", "Finished">> }

(* C22 as stated: the expected-emit state only moves one step forward      *)
(* along NotStarted, ExpectedEmitTriggered, CallTriggered, Assert,         *)
(* Finished.                                                               *)
C22_OnlyAlongChain ==
    [][ tracer'.emit_config.expected_emit_state
            /= tracer.emit_config.expected_emit_state
        => <<tracer.emit_config.expected_emit_state,
             tracer'.emit_config.expected_emit_state>> \in EmitChain ]_vars

(* C22 as the code has it: CallTriggered is entered only from              *)
(* ExpectedEmitTriggered, on a far call, and Finished only from Assert, at *)
(* the cycle end; ExpectedEmitTriggered is entered from any state by an    *)
(* expectEmit cheatcode, and Assert from any state when the test finishes. *)
C22_EmitTransitions ==
    [][ LET from == tracer.emit_config.expected_emit_state
            to == tracer'.emit_config.expected_emit_state
        IN  from /= to =>
              \/ /\ to = "ExpectedEmitTriggered"
                 /\ phase = "after"
                 /\ IsCheat({"expectEmit_0", "expectEmit_1", "expectEmit_2"})
              \/ /\ to = "CallTriggered"
                 /\ from = "ExpectedEmitTriggered"
                 /\ phase = "after"
                 /\ op.opcode = "FarCall"
              \/ /\ to = "Assert"
                 /\ phase = "after"
                 /\ op.opcode = "Ret"
                 /\ tracer.test_status = Running(Depth(vm) + 1)
              \/ /\ to = "Finished"
                 /\ from = "Assert"
                 /\ phase = "finish" ]_vars

(* The test finished with an expectation set and no call ever tracked:     *)
(* Assert was entered from ExpectedEmitTriggered.                          *)
C22_Witness ==
    /\ phase = "finish"
    /\ IsNone(panicked)
    /\ tracer.emit_config.expected_emit_state = "Assert"
    /\ tracer.emit_config.checks = EmitChecks(<<>>, <<TRUE, FALSE, FALSE>>, TRUE)
    /\ tracer.emit_config.call_depth = 0

---------------------------------------------------------------------------
(* Returns around an armed expectRevert: far calls, calls into the         *)
(* account-code-storage system contract, successes, reverts and panics.    *)
ReturnsCheats ==
    { [name |-> "expectRevert_0"],
      [name |-> "expectRevert_2", revertData |-> <<"a">>] }

ReturnsOps ==
    { CallTest, PlainRet,
      FarCallOp("AA", <<"01">>, 0, NoCall, 1, 2),
      FarCallOp(ACCOUNT_CODE_STORAGE_ADDRESS, <<"01">>, 0, NoCall, 1, 2),
      RetOp("Panic", FALSE, 0, Unknown(<<>>)),
      RetOp("Revert", FALSE, 0, General(<<"a">>)),
      RetOp("Revert", FALSE, 0, General(<<"b">>)) }
    \cup { Cheat(c) : c \in ReturnsCheats }

NextReturns == Step(ReturnsOps)
SpecReturns == Init /\ [][NextReturns]_vars

(* An expectRevert is armed and after_execution is about to see the Ok or  *)
(* Revert return it watches: the stack is at the target depth and no       *)
(* return is left to skip.                                                 *)
WatchedReturn ==
    /\ phase = "after"
    /\ op.opcode = "Ret"
    /\ op.ret \in {"Ok", "Revert"}
    /\ IsSome(tracer.next_return_action)
    /\ Depth(vm) = Unwrap(tracer.next_return_action).target_depth
    /\ Unwrap(tracer.next_return_action).returns_to_skip = 0

ControlFlowActions(actions) ==
    SelectSeq(actions, LAMBDA a : a.kind \in {"ForceReturn", "ForceRevert"})

(* C23: an armed expectRevert is cleared by the after_execution of the     *)
(* watched return and by no other step; that call enqueues exactly one     *)
(* action, a ForceReturn for a revert that satisfies the declaration and a *)
(* ForceRevert for a success or a contradicting revert; no other step      *)
(* enqueues a ForceReturn or ForceRevert.                                  *)
C23_ResolvesOnceAtWatchedReturn ==
    [][ IF WatchedReturn
        THEN /\ IsNone(panicked')
             /\ IsNone(tracer'.next_return_action)
             /\ Len(tracer'.one_time_actions) = Len(tracer.one_time_actions) + 1
             /\ LET action == tracer'.one_time_actions[Len(tracer'.one_time_actions)]
                    passes == /\ op.ret = "Revert"
                              /\ handle_except_revert(ExpectedReason, op.ret,
                                                      op.retdata).ok
                IN  action.kind = IF passes THEN "ForceReturn" ELSE "ForceRevert"
        ELSE /\ IsSome(tracer.next_return_action)
                    => IsSome(tracer'.next_return_action)
             /\ Len(ControlFlowActions(tracer'.one_time_actions))
                    <= Len(ControlFlowActions(tracer.one_time_actions)) ]_vars

(* A plain success was the watched return: the expectation is cleared and  *)
(* a ForceRevert waits for the cycle end.                                  *)
C23_Witness ==
    /\ phase = "finish"
    /\ IsNone(panicked)
    /\ op.opcode = "Ret"
    /\ op.ret = "Ok"
    /\ IsNone(tracer.next_return_action)
    /\ Len(tracer.one_time_actions) = 1
    /\ tracer.one_time_actions[1].kind = "ForceRevert"
    /\ tracer.one_time_actions[1].error = "expected revert but call succeeded"

(* C24: an expectRevert dispatched at depth D is armed with target depth   *)
(* D-1 and one return to skip; until a return has been seen the current    *)
(* frame is the cheatcode frame at depth D, so the first return is its     *)
(* own; a return observed at another depth leaves the expectation as it    *)
(* is; a return observed at the target depth with returns to skip only     *)
(* decrements the count.                                                   *)
C24_ArmedOneBelowSkippingOne ==
    [][ /\ ( /\ phase = "after"
             /\ IsCheat(ExpectRevertNames)
             /\ IsNone(panicked') )
          => /\ IsNone(tracer.next_return_action)
             /\ IsSome(tracer'.next_return_action)
             /\ Unwrap(tracer'.next_return_action).target_depth = Depth(vm) - 1
             /\ Unwrap(tracer'.next_return_action).returns_to_skip = 1
        /\ ( /\ IsSome(tracer'.next_return_action)
             /\ IsNone(Unwrap(tracer'.next_return_action).action.prev_continue_pc) )
          => /\ Unwrap(tracer'.next_return_action).returns_to_skip = 1
             /\ Current(vm').code_address = CHEATCODE_ADDRESS
             /\ Depth(vm') = Unwrap(tracer'.next_return_action).target_depth + 1
        /\ ( /\ phase = "after"
             /\ op.opcode = "Ret"
             /\ IsSome(tracer.next_return_action)
             /\ Depth(vm) /= Unwrap(tracer.next_return_action).target_depth )
          => tracer'.next_return_action = tracer.next_return_action
        /\ ( /\ phase = "after"
             /\ op.opcode = "Ret"
             /\ IsSome(tracer.next_return_action)
             /\ Depth(vm) = Unwrap(tracer.next_return_action).target_depth
             /\ Unwrap(tracer.next_return_action).returns_to_skip > 0 )
          => /\ tracer'.next_return_action =
                    [tracer.next_return_action EXCEPT ![1].returns_to_skip = @ - 1]
             /\ ControlFlowActions(tracer'.one_time_actions) = <<>> ]_vars

(* The cheatcode frame has returned to depth D-1: the expectation is still *)
(* armed, with no return left to skip and nothing enqueued.                *)
C24_Witness ==
    /\ phase = "finish"
    /\ IsNone(panicked)
    /\ op.opcode = "Ret"
    /\ IsSome(tracer.next_return_action)
    /\ Depth(vm) = Unwrap(tracer.next_return_action).target_depth
    /\ Unwrap(tracer.next_return_action).returns_to_skip = 0
    /\ tracer.current_opcode.pc = 0
    /\ tracer.one_time_actions = <<>>

(* The frame the stack holds at a depth; depth 0 is the first frame.       *)
FrameAt(v, depth) == v.callstack[depth + 1]

(* C25: while an expectRevert is armed with target depth T, a far call     *)
(* that lands in the account-code-storage contract at depth T+1 adds one   *)
(* to returns_to_skip and any other far call leaves the expectation        *)
(* unchanged; once after_execution has seen such a call, and while the     *)
(* call's frame is on the stack, a return is left to skip, so its return   *)
(* to depth T is skipped; the expectation is cleared only by a return at   *)
(* depth T with no return left to skip.                                    *)
C25_SystemCallReturnsSkipped ==
    [][ /\ ( /\ phase = "after"
             /\ op.opcode = "FarCall"
             /\ IsSome(tracer.next_return_action)
             /\ IsNone(panicked') )
          => LET action == Unwrap(tracer.next_return_action)
             IN  tracer'.next_return_action =
                     IF /\ op.callee = ACCOUNT_CODE_STORAGE_ADDRESS
                        /\ Depth(vm) = action.target_depth + 1
                     THEN Some([action EXCEPT !.returns_to_skip = @ + 1])
                     ELSE Some(action)
        /\ ( /\ IsSome(tracer'.next_return_action)
             /\ Depth(vm') > Unwrap(tracer'.next_return_action).target_depth
             /\ ~( /\ phase' = "after"
                   /\ op'.opcode = "FarCall"
                   /\ Depth(vm') = Unwrap(tracer'.next_return_action).target_depth + 1 ) )
          => LET action == Unwrap(tracer'.next_return_action)
                 frame == FrameAt(vm', action.target_depth + 1)
             IN  ( /\ frame.code_address = ACCOUNT_CODE_STORAGE_ADDRESS
                   /\ ~frame.is_local_frame )
                     => action.returns_to_skip >= 1
        /\ ( /\ IsSome(tracer.next_return_action)
             /\ IsNone(tracer'.next_return_action) )
          => WatchedReturn ]_vars

(* After the cheatcode frame's return left nothing to skip, a far call     *)
(* from depth T into the account-code-storage contract left one return to  *)
(* skip.                                                                   *)
C25_Witness ==
    /\ phase = "finish"
    /\ IsNone(panicked)
    /\ op.opcode = "FarCall"
    /\ op.callee = ACCOUNT_CODE_STORAGE_ADDRESS
    /\ IsSome(tracer.next_return_action)
    /\ Depth(vm) = Unwrap(tracer.next_return_action).target_depth + 1
    /\ Unwrap(tracer.next_return_action).returns_to_skip = 1
    /\ IsSome(Unwrap(tracer.next_return_action).action.prev_continue_pc)

---------------------------------------------------------------------------
(* Continuations of an armed expectRevert: returns from far-call frames    *)
(* and from local frames, with and without the to-label flag.              *)
ContinuationOps ==
    { CallTest, PlainRet,
      NearCallOp(3, 4),
      RetOp("Revert", FALSE, 0, General(<<"a">>)),
      RetOp("Revert", TRUE, 7, General(<<"a">>)),
      Cheat([name |-> "expectRevert_0"]) }

NextContinuations == Step(ContinuationOps)
SpecContinuations == Init /\ [][NextContinuations]_vars

(* C26: before_execution of every Ret seen while an expectRevert is armed  *)
(* records the continuation (the label immediate of a to-label ret in a    *)
(* local frame, else the previous frame's pc) and the current frame's      *)
(* exception handler; the action the watched return enqueues carries the   *)
(* values recorded for that very Ret.                                      *)
C26_ContinuationsOfResolvingReturn ==
    [][ /\ ( /\ phase = "before"
             /\ op'.opcode = "Ret"
             /\ IsSome(tracer.next_return_action)
             /\ IsNone(panicked') )
          => LET expect == Unwrap(tracer'.next_return_action).action
                 last == Inner(vm)[Len(Inner(vm))]
             IN  /\ expect.prev_continue_pc =
                        Some(IF op'.to_label /\ Current(vm).is_local_frame
                             THEN op'.imm_0
                             ELSE last.pc)
                 /\ expect.prev_exception_handler_pc =
                        Some(Current(vm).exception_handler_location)
        /\ phase = "execute" => tracer' = tracer /\ op' = op
        /\ WatchedReturn
          => LET expect == Unwrap(tracer.next_return_action).action
                 action == tracer'.one_time_actions[Len(tracer'.one_time_actions)]
             IN  /\ action.kind = "ForceReturn"
                        => Some(action.continue_pc) = expect.prev_continue_pc
                 /\ action.kind = "ForceRevert"
                        => Some(action.exception_handler)
                               = expect.prev_exception_handler_pc ]_vars

(* A to-label revert out of a local frame resolved the expectation: the    *)
(* ForceReturn continues at the label, not at a pc stored for the          *)
(* cheatcode frame's return.                                               *)
C26_Witness ==
    /\ phase = "finish"
    /\ IsNone(panicked)
    /\ op.opcode = "Ret"
    /\ op.ret = "Revert"
    /\ op.to_label
    /\ IsNone(tracer.next_return_action)
    /\ Len(tracer.one_time_actions) = 1
    /\ tracer.one_time_actions[1].kind = "ForceReturn"
    /\ tracer.one_time_actions[1].continue_pc = op.imm_0

---------------------------------------------------------------------------
(* An armed emit expectation and the far calls that follow it: into the    *)
(* cheatcode address, an internal contract, a reserved address and a user  *)
(* contract, with events in between.                                       *)
EmitCallCheats ==
    { [name |-> "expectEmit_2"], [name |-> "stopPrank"] }

EmitCallOps ==
    { PlainRet, EventOp(<<"t1">>, "d1", 1),
      FarCallOp("AA", <<"01">>, 0, NoCall, 1, 2),
      FarCallOp(NONCE_HOLDER_ADDRESS, <<"01">>, 0, NoCall, 1, 2),
      FarCallOp(LOW_ADDRESS, <<"01">>, 0, NoCall, 1, 2) }
    \cup { Cheat(c) : c \in EmitCallCheats }

NextEmitCall == Step(EmitCallOps)
SpecEmitCall == Init /\ [][NextEmitCall]_vars

(* after_execution is about to see a far call while the expected-emit      *)
(* state is ExpectedEmitTriggered.                                         *)
FarCallWhileEmitTriggered ==
    /\ phase = "after"
    /\ op.opcode = "FarCall"
    /\ tracer.emit_config.expected_emit_state = "ExpectedEmitTriggered"
    /\ IsNone(panicked')

UntrackedCallee ==
    \/ op.callee = CHEATCODE_ADDRESS
    \/ op.callee \in INTERNAL_CONTRACT_ADDRESSES
    \/ is_reserved_addr(op.callee)

CallTracked ==
    tracer'.emit_config =
        [tracer.emit_config EXCEPT !.expect_emits_until = vm.timestamp,
                                   !.call_emits_since = vm.timestamp,
                                   !.call_depth = Depth(vm),
                                   !.expected_emit_state = "CallTriggered"]

EmitWindowsUnchanged ==
    /\ tracer'.emit_config.expected_emit_state = tracer.emit_config.expected_emit_state
    /\ tracer'.emit_config.expect_emits_since = tracer.emit_config.expect_emits_since
    /\ tracer'.emit_config.expect_emits_until = tracer.emit_config.expect_emits_until
    /\ tracer'.emit_config.call_emits_since = tracer.emit_config.call_emits_since
    /\ tracer'.emit_config.call_emits_until = tracer.emit_config.call_emits_until

(* C27 as stated: while ExpectedEmitTriggered, a far call into the         *)
(* cheatcode address, an internal contract or a reserved address leaves    *)
(* the emit state and both windows unchanged; a far call to any other      *)
(* address stamps expect_emits_until and call_emits_since, records the     *)
(* callee's depth and moves the state to CallTriggered.                    *)
C27_UntrackedCallsChangeNothing ==
    [][ FarCallWhileEmitTriggered
          => IF UntrackedCallee THEN EmitWindowsUnchanged ELSE CallTracked ]_vars

(* C27 as the code has it: the same, except that a far call into the       *)
(* cheatcode address that is itself an expectEmit arms anew: the expected  *)
(* window then starts at the current timestamp.                            *)
C27_FirstTrackedCallOpensWindow ==
    [][ FarCallWhileEmitTriggered
          => IF IsCheat({"expectEmit_0", "expectEmit_1", "expectEmit_2"})
             THEN /\ tracer'.emit_config.expected_emit_state = "ExpectedEmitTriggered"
                  /\ tracer'.emit_config.expect_emits_since = vm.timestamp
                  /\ tracer'.emit_config.expect_emits_until
                         = tracer.emit_config.expect_emits_until
                  /\ tracer'.emit_config.call_emits_since
                         = tracer.emit_config.call_emits_since
                  /\ tracer'.emit_config.call_emits_until
                         = tracer.emit_config.call_emits_until
             ELSE IF UntrackedCallee
             THEN tracer'.emit_config = tracer.emit_config
             ELSE CallTracked ]_vars

(* After an expectation and an event, the call into a user contract        *)
(* opened the actual window at the current timestamp, one depth down.      *)
C27_Witness ==
    /\ phase = "finish"
    /\ IsNone(panicked)
    /\ op.opcode = "FarCall"
    /\ op.callee = "AA"
    /\ tracer.emit_config.expected_emit_state = "CallTriggered"
    /\ tracer.emit_config.call_depth = Depth(vm)
    /\ tracer.emit_config.call_emits_since = vm.timestamp
    /\ tracer.emit_config.expect_emits_until = vm.timestamp
    /\ tracer.emit_config.expect_emits_since < vm.timestamp

(* after_execution is about to see an instruction that left the stack as   *)
(* it was, in a tracked frame below the tracked call's depth: the          *)
(* after_execution of the instruction before it saw the same stack, so the *)
(* actual window has been closed already.                                  *)
ActualWindowClosed ==
    /\ phase = "after"
    /\ op.opcode \notin {"FarCall", "NearCall", "Ret"}
    /\ tracer.emit_config.expected_emit_state = "CallTriggered"
    /\ Depth(vm) < tracer.emit_config.call_depth
    /\ Current(vm).code_address /= CHEATCODE_ADDRESS
    /\ ~is_reserved_addr(Current(vm).code_address)

(* C28: once the stack has returned below the tracked call's depth,        *)
(* call_emits_until keeps the timestamp of that instant while the state    *)
(* stays CallTriggered: no later instruction of the test changes it.       *)
C28_ActualWindowClosedOnce ==
    [][ ( /\ ActualWindowClosed
          /\ tracer'.emit_config.expected_emit_state = "CallTriggered" )
          => tracer'.emit_config.call_emits_until
                 = tracer.emit_config.call_emits_until ]_vars

---------------------------------------------------------------------------
(* The test lifecycle: calls into the test address at several depths,      *)
(* calls out of it, local frames, returns of every kind, and expectations  *)
(* for the end-of-test checks.                                             *)
LifecycleCheats ==
    { [name |-> "expectCall_0", callee |-> "AA", data |-> <<"01">>],
      [name |-> "expectEmit_2"] }

LifecycleOps ==
    { CallTest, PlainRet,
      FarCallOp("AA", <<"01">>, 0, NoCall, 1, 2),
      NearCallOp(1, 2),
      RetOp("Revert", FALSE, 0, General(<<"a">>)) }
    \cup { Cheat(c) : c \in LifecycleCheats }

NextLifecycle == Step(LifecycleOps)
SpecLifecycle == Init /\ [][NextLifecycle]_vars

(* after_execution is about to see the far call that starts the test.      *)
TestStarts ==
    /\ phase = "after"
    /\ op.opcode = "FarCall"
    /\ op.callee = TEST_ADDRESS
    /\ tracer.test_status = NotStarted

(* after_execution is about to see the Ret that took the stack one below   *)
(* the depth the running test was entered at.                              *)
TestFinishes ==
    /\ phase = "after"
    /\ op.opcode = "Ret"
    /\ tracer.test_status.state = "Running"
    /\ Depth(vm) = tracer.test_status.call_depth - 1

(* C29: the test status changes in exactly two steps.  A far call into the *)
(* test address while NotStarted makes it Running(d), d the depth after    *)
(* the call.  The Ret after which the depth is d-1 finishes the test: the  *)
(* emit state becomes Assert, the expected calls are checked (a failed     *)
(* one aborts), and the status is reset, so the checks are not triggered   *)
(* again for that finish.  No other step, among them far calls into the    *)
(* test address while Running and returns at other depths, changes the     *)
(* status or triggers the checks.                                          *)
C29_TestLifecycle ==
    [][ CASE TestStarts ->
                /\ IsNone(panicked')
                /\ tracer'.test_status = Running(Depth(vm))
          [] TestFinishes ->
                /\ tracer'.emit_config.expected_emit_state = "Assert"
                /\ IsSome(panicked') <=> FailedExpectedCalls(tracer.expected_calls) /= {}
                /\ IsNone(panicked') => tracer'.test_status = NotStarted
          [] OTHER ->
                /\ tracer'.test_status = tracer.test_status
                /\ tracer'.emit_config.expected_emit_state = "Assert"
                       => tracer.emit_config.expected_emit_state = "Assert"
                /\ IsSome(panicked') /\ IsNone(panicked)
                       => panicked'[1].msg
                              /= "Expected call was found a different number of times" ]_vars

(* The test made the expected call and its return took the stack below    *)
(* the depth it was entered at: the checks passed, the emit assertion is   *)
(* due at this cycle end and the status is reset.                          *)
C29_Witness ==
    /\ phase = "finish"
    /\ IsNone(panicked)
    /\ op.opcode = "Ret"
    /\ ncalls >= 3
    /\ Depth(vm) = 0
    /\ tracer.test_status = NotStarted
    /\ tracer.emit_config.expected_emit_state = "Assert"
    /\ ExpectedKeys(tracer.expected_calls) /= {}

---------------------------------------------------------------------------
(* Broadcast recording.                                                    *)
(* after_execution is about to see a far call that the active broadcast    *)
(* records: the callee is not the cheatcode address, the stack is at the   *)
(* broadcast's depth and the calling frame is the broadcast's original     *)
(* caller.                                                                 *)
BroadcastRecords ==
    /\ phase = "after"
    /\ op.opcode = "FarCall"
    /\ IsSome(Broadcast)
    /\ op.callee /= CHEATCODE_ADDRESS
    /\ Depth(vm) = Unwrap(Broadcast).depth
    /\ Inner(vm)[Len(Inner(vm))].this_address = Unwrap(Broadcast).original_caller

(* C30: a far call the active broadcast records appends one transaction    *)
(* that carries the new origin's nonce as read from storage at that        *)
(* moment, and enqueues SetOrigin and a storage write of that nonce plus   *)
(* one to the origin's nonce slot; no other step appends a transaction,    *)
(* and a far call to another address that is not recorded enqueues         *)
(* nothing.                                                                *)
C30_BroadcastRecordsAtDepthFromCaller ==
    [][ IF BroadcastRecords
        THEN LET broadcast == Unwrap(Broadcast)
                 full_nonce == read_value(storage, get_nonce_key(broadcast.new_origin))
             IN  /\ IsNone(panicked')
                 /\ tracer'.broadcastable_transactions =
                        Append(tracer.broadcastable_transactions,
                               BroadcastableTransaction(broadcast.new_origin, op.callee,
                                                        None, op.calldata, full_nonce[1]))
                 /\ tracer'.one_time_actions =
                        tracer.one_time_actions \o
                        << SetOrigin(broadcast.new_origin),
                           StorageWrite(get_nonce_key(broadcast.new_origin), full_nonce,
                                        <<full_nonce[1] + 1, full_nonce[2]>>) >>
        ELSE /\ tracer'.broadcastable_transactions = tracer.broadcastable_transactions
             /\ ( /\ phase = "after"
                  /\ op.opcode = "FarCall"
                  /\ op.callee /= CHEATCODE_ADDRESS )
                    => tracer'.one_time_actions = tracer.one_time_actions ]_vars

(* Two calls were recorded one after the other: the second carries the     *)
(* nonce the first one's storage write left.                               *)
C30_Witness ==
    /\ phase = "finish"
    /\ IsNone(panicked)
    /\ Len(tracer.broadcastable_transactions) = 2
    /\ tracer.broadcastable_transactions[1].nonce = 0
    /\ tracer.broadcastable_transactions[2].nonce = 1
    /\ tracer.broadcastable_transactions[2].from = Unwrap(Broadcast).new_origin

---------------------------------------------------------------------------
(* C31: startBroadcast records the tx-origin slot's value at dispatch as   *)
(* the original origin; stopBroadcast under an active broadcast clears it  *)
(* and enqueues SetOrigin with that origin, and the cycle end of the same  *)
(* instruction writes it to the tx-origin slot; stopBroadcast without an   *)
(* active broadcast enqueues nothing.                                      *)
C31_StopBroadcastRestoresOrigin ==
    [][ /\ ( /\ phase = "after"
             /\ IsCheat(StartBroadcastNames)
             /\ IsNone(Prank)
             /\ IsNone(panicked') )
          => /\ IsSome(tracer'.permanent_actions.broadcast)
             /\ Unwrap(tracer'.permanent_actions.broadcast).original_origin
                    = read_value(storage, TxOriginKey)
        /\ ( /\ phase = "after"
             /\ IsCheat({"stopBroadcast"})
             /\ IsNone(panicked') )
          => /\ IsNone(tracer'.permanent_actions.broadcast)
             /\ tracer'.one_time_actions =
                    IF IsSome(Broadcast)
                    THEN Append(tracer.one_time_actions,
                                SetOrigin(Unwrap(Broadcast).original_origin))
                    ELSE tracer.one_time_actions
        /\ ( /\ phase = "finish"
             /\ IsCheat({"stopBroadcast"})
             /\ IsNone(panicked')
             /\ tracer.one_time_actions /= <<>>
             /\ tracer.one_time_actions[Len(tracer.one_time_actions)].kind = "SetOrigin" )
          => /\ IsNone(tracer'.permanent_actions.broadcast)
             /\ read_value(storage', TxOriginKey)
                    = tracer.one_time_actions[Len(tracer.one_time_actions)].origin ]_vars

(* A broadcast under another origin recorded a call and was stopped: the   *)
(* cycle end has put the first origin back.                                *)
C31_Witness ==
    /\ phase = "before"
    /\ IsNone(panicked)
    /\ IsCheat({"stopBroadcast"})
    /\ IsNone(Broadcast)
    /\ Len(tracer.broadcastable_transactions) >= 1
    /\ tracer.broadcastable_transactions[1].from = "origin1"
    /\ read_value(storage, TxOriginKey) = "origin0"

---------------------------------------------------------------------------
(* Fork cheatcodes after storage writes: store writes a user slot, roll a  *)
(* system-context slot; the test starts with or without cumulative storage *)
(* modifications of earlier transactions.                                  *)
ForkDeltaOps ==
    { PlainRet,
      Cheat([name |-> "store", target |-> "AA", slot |-> "slot0", value |-> 2]),
      Cheat([name |-> "roll", newHeight |-> 1]),
      Cheat([name |-> "createSelectFork_0", urlOrAlias |-> "rpc"]),
      Cheat([name |-> "createFork_0", urlOrAlias |-> "rpc"]),
      Cheat([name |-> "selectFork", forkId |-> 0]),
      Cheat([name |-> "rollFork_0", blockNumber |-> 2]) }

NextForkDelta == Step(ForkDeltaOps)
SpecForkDelta == InitSnapshot /\ [][NextForkDelta]_vars

SwitchingForkKinds == {"CreateSelectFork", "SelectFork", "RollFork"}

(* The cycle end that applies the fork action a fork cheatcode enqueued.   *)
ForkActionApplies ==
    /\ phase = "finish"
    /\ IsCheat(SelectingForkNames \cup OtherForkNames)
    /\ tracer.one_time_actions = <<ForkActionOf(op.call)>>

CapturesAndClearsFirst(calls) ==
    /\ Len(calls) = 3
    /\ SubSeq(calls, 1, 2) = <<"get_modified_storage", "clean_cache">>

---------------------------------------------------------------------------
(* The cycle end that applies the Snapshot action snapshot() enqueued.     *)
SnapshotApplies ==
    /\ phase = "finish"
    /\ IsCheat({"snapshot"})
    /\ tracer.one_time_actions = <<[kind |-> "Snapshot"]>>

---------------------------------------------------------------------------
---------------------------------------------------------------------------
(* C35: at a cycle end, where the saved return pointer is consumed (after  *)
(* the emit assertion and the drain of the queue), a saved return pointer  *)
(* comes with pending return data, also when the drain applied a           *)
(* ForceReturn or ForceRevert.                                             *)
C35_ReturnPtrImpliesReturnData ==
    (phase = "finish" /\ IsNone(panicked)) =>
        LET drained == Then(assert_emits(World), apply_one_time_actions)
        IN  (IsNone(drained.panic) /\ IsSome(drained.t.return_ptr))
                => IsSome(drained.t.return_data)

---------------------------------------------------------------------------
(* C36: while an expectRevert is armed, the return of a call to the        *)
(* cheatcode contract (the return of expectRevert itself or of a cheatcode *)
(* called after it) leaves the expectation armed and enqueues no           *)
(* ForceReturn or ForceRevert: the after_execution of that return, run on  *)
(* the state the return leaves, keeps next_return_action set.              *)
C36_CheatcodeReturnsDoNotResolve ==
    ( /\ phase = "execute"
      /\ IsNone(panicked)
      /\ op.opcode = "Ret"
      /\ Current(vm).code_address = CHEATCODE_ADDRESS
      /\ IsSome(tracer.next_return_action) )
    => LET returned == after_execution([World EXCEPT !.vm = ExecuteOp(vm, op)], op)
       IN  /\ IsSome(returned.t.next_return_action)
           /\ Len(ControlFlowActions(returned.t.one_time_actions))
                  <= Len(ControlFlowActions(tracer.one_time_actions))

---------------------------------------------------------------------------
(* C37: when the cycle end makes the emit assertion, both windows are      *)
(* well-formed, so that neither subtraction of the boundary surplus from   *)
(* the number of events in the window underflows.                          *)
C37_EmitWindowsWellFormed ==
    ( /\ phase = "finish"
      /\ IsNone(panicked)
      /\ tracer.emit_config.expected_emit_state = "Assert" )
    => /\ tracer.emit_config.expect_emits_since <= tracer.emit_config.expect_emits_until
       /\ tracer.emit_config.call_emits_since <= tracer.emit_config.call_emits_until
       /\ ~EmitSubtractOverflows(World)

---------------------------------------------------------------------------
(* The positions of the transactions recorded for one origin. *)
RecordedFor(origin) ==
    { i \in 1..Len(tracer.broadcastable_transactions) :
        tracer.broadcastable_transactions[i].from = origin }

(* C38: the transactions recorded for one origin carry consecutive nonces: *)
(* each carries the nonce of the one recorded before it for that origin    *)
(* plus one, and between two instructions the origin's transaction nonce   *)
(* in storage is the nonce of the last recorded one plus one, the write    *)
(* enqueued with a record being applied at the end of the same cycle.      *)
C38_BroadcastNoncesConsecutive ==
    LET txs == tracer.broadcastable_transactions
    IN  \A j \in 1..Len(txs) :
            LET earlier == { i \in RecordedFor(txs[j].from) : i < j }
                later == { i \in RecordedFor(txs[j].from) : i > j }
                first == CHOOSE i \in RecordedFor(txs[j].from) :
                             \A k \in RecordedFor(txs[j].from) : i <= k
            IN  /\ txs[j].nonce = txs[first].nonce + Cardinality(earlier)
                /\ (later = {} /\ phase = "before" /\ IsNone(panicked))
                     => get_nonce(World, txs[j].from)[1] = txs[j].nonce + 1

(* Two calls were recorded for one origin and the cycle of the second has  *)
(* ended: its nonce write is in storage.                                   *)
C38_Witness ==
    /\ phase = "before"
    /\ IsNone(panicked)
    /\ Len(tracer.broadcastable_transactions) = 2
    /\ tracer.broadcastable_transactions[1].from = "origin1"
    /\ tracer.broadcastable_transactions[2].from = "origin1"
    /\ tracer.broadcastable_transactions[2].nonce
           = tracer.broadcastable_transactions[1].nonce + 1
    /\ get_nonce(World, "origin1")[1] = 2
    /\ tracer.one_time_actions = <<>>

---------------------------------------------------------------------------
(* Nonce writes: setNonce on an account whose nonces are equal and on one  *)
(* whose deployment nonce is ahead, and a broadcast whose recorded calls   *)
(* raise the transaction nonce alone.                                      *)
MaxNonce == 2
NonceAccounts == {"origin1", "deployer"}
NonceRequests == {None} \cup { Some(n) : n \in 0..MaxNonce }

NonceOps ==
    { PlainRet,
      FarCallOp("AA", <<"01">>, 0, NoCall, 1, 2),
      Cheat([name |-> "startBroadcast_1", signer |-> "origin1"]),
      Cheat([name |-> "stopBroadcast"]) }
    \cup { Cheat([name |-> "setNonce", account |-> a, newNonce |-> n]) :
             a \in NonceAccounts, n \in 0..MaxNonce }

NextNonce == Step(NonceOps)
SpecNonce == Init /\ [][NextNonce]_vars

(* C39: in every state, for every account and every request, set_nonce     *)
(* returns None and changes nothing when the requested transaction nonce   *)
(* or the requested deployment nonce is not above the current one, and     *)
(* otherwise does nothing but append one StorageWrite to the nonce slot    *)
(* that carries the slot's stored value as read value and the pair of the  *)
(* requested (or, where none is requested, current) nonces as write value; *)
(* the setNonce cheatcode does so with its argument for both nonces; and   *)
(* no step lowers a nonce in storage.                                      *)
C39_SetNonceAllOrNothing ==
    [][ /\ \A account \in NonceAccounts, tx_nonce \in NonceRequests,
             deploy_nonce \in NonceRequests :
            LET key == get_nonce_key(account)
                stored == read_value(storage, key)
                rejected == \/ IsSome(tx_nonce) /\ Unwrap(tx_nonce) <= stored[1]
                            \/ IsSome(deploy_nonce) /\ Unwrap(deploy_nonce) <= stored[2]
                combined == << IF IsSome(tx_nonce) THEN Unwrap(tx_nonce) ELSE stored[1],
                               IF IsSome(deploy_nonce) THEN Unwrap(deploy_nonce)
                               ELSE stored[2] >>
                returned == set_nonce_returns(World, account, tx_nonce, deploy_nonce)
                after == set_nonce(World, account, tx_nonce, deploy_nonce)
            IN  IF rejected
                THEN returned = None /\ after = World
                ELSE /\ returned = Some(combined)
                     /\ after = push(World, StorageWrite(key, stored, combined))
        /\ (phase = "after" /\ IsCheat({"setNonce"})) =>
              LET key == get_nonce_key(op.call.account)
                  stored == read_value(storage, key)
                  n == op.call.newNonce
              IN  /\ storage' = storage
                  /\ tracer'.one_time_actions =
                       IF n <= stored[1] \/ n <= stored[2]
                       THEN tracer.one_time_actions
                       ELSE Append(tracer.one_time_actions,
                                   StorageWrite(key, stored, <<n, n>>))
        /\ \A account \in NonceAccounts :
              /\ read_value(storage', get_nonce_key(account))[1]
                     >= read_value(storage, get_nonce_key(account))[1]
              /\ read_value(storage', get_nonce_key(account))[2]
                     >= read_value(storage, get_nonce_key(account))[2] ]_vars

(* setNonce(deployer, 1) was dispatched with the transaction nonce below   *)
(* and the deployment nonce at the request: nothing was enqueued, and      *)
(* neither nonce has changed.                                              *)
C39_Witness ==
    /\ phase = "finish"
    /\ IsCheat({"setNonce"})
    /\ op.call.account = "deployer"
    /\ op.call.newNonce = 1
    /\ read_value(storage, get_nonce_key("deployer")) = <<0, 1>>
    /\ tracer.one_time_actions = <<>>
    /\ read_value(storage, get_nonce_key("origin1")) = <<2, 2>>

---------------------------------------------------------------------------
ImmediateReturnActions(actions) ==
    SelectSeq(actions, LAMBDA a : a.kind = "SetImmediateReturn")

(* C40: a far call that registered mocks match arms the immediate return   *)
(* with the return data of the last-registered matching mock, and a far    *)
(* call that none matches arms nothing; the cycle end that follows leaves  *)
(* no immediate return pending: when the current frame's pc is the trigger *)
(* pc it appends one SetImmediateReturn with that return data to the       *)
(* drained queue, and otherwise it drops the immediate return and the      *)
(* queue holds no SetImmediateReturn.                                      *)
C40_ImmediateReturnConsumedEachCycle ==
    [][ /\ (phase = "after" /\ op.opcode = "FarCall" /\ IsNone(panicked')) =>
              LET matching == { i \in 1..Len(tracer.mock_calls) :
                                  /\ tracer.mock_calls[i].filter.address
                                         = Current(vm).code_address
                                  /\ tracer.mock_calls[i].filter.calldata = op.calldata }
                  armed == tracer'.permanent_actions.immediate_return
              IN  IF matching = {}
                  THEN IsNone(armed)
                  ELSE /\ IsSome(armed)
                       /\ \E i \in matching :
                            /\ \A j \in matching : j <= i
                            /\ Unwrap(armed).return_data
                                   = tracer.mock_calls[i].filter.return_data
        /\ (phase = "finish" /\ IsNone(panicked')) =>
              LET pending == tracer.permanent_actions.immediate_return
                  queue == tracer'.one_time_actions
              IN  /\ IsNone(tracer'.permanent_actions.immediate_return)
                  /\ IF /\ IsSome(pending)
                        /\ Unwrap(pending).trigger_pc = Current(vm').pc
                     THEN /\ Len(ImmediateReturnActions(queue)) = 1
                          /\ queue[Len(queue)].kind = "SetImmediateReturn"
                          /\ queue[Len(queue)].data = Unwrap(pending).return_data
                     ELSE ImmediateReturnActions(queue) = <<>>
        /\ phase' /= "finish" => IsNone(tracer'.permanent_actions.immediate_return)
      ]_vars

(* Two mocks with different return data were registered for the same call, *)
(* the call was made and its cycle has ended: the queued SetImmediateReturn *)
(* carries the return data of the mock registered second.                  *)
C40_Witness ==
    /\ phase = "before"
    /\ IsNone(panicked)
    /\ op.opcode = "FarCall"
    /\ op.callee = "AA"
    /\ Len(tracer.mock_calls) = 2
    /\ tracer.mock_calls[1].filter.return_data = <<"2a">>
    /\ tracer.mock_calls[2].filter.return_data = OneWord
    /\ tracer.mock_calls[1].filter.calldata = op.calldata
    /\ IsNone(tracer.permanent_actions.immediate_return)
    /\ Len(tracer.one_time_actions) = 1
    /\ tracer.one_time_actions[1].kind = "SetImmediateReturn"
    /\ tracer.one_time_actions[1].data = OneWord

====
